---- MODULE Spec2Model ----
(***************************************************************************)
(* Storm-API: the in-memory artifact store of core/storm_service.py, the   *)
(* non-streaming `run` and the thread-plus-queue streaming bridge          *)
(* `run_with_streaming`, with the progress queue of                        *)
(* core/streaming_callback.py.                                             *)
(*                                                                         *)
(* Strings are sequences of tokens: a path is a sequence of names and      *)
(* separators, a message a sequence of fragments, so that f-string         *)
(* formatting is concatenation (\o) and normalisation rewrites separators. *)
(* The STORM pipeline (knowledge_storm) is an external black box: it may   *)
(* emit lifecycle callbacks, write artifacts through FileIOHelper.write_str*)
(* in stage order, raise, or return.                                       *)
(***************************************************************************)
EXTENDS Naturals, Sequences, FiniteSets, TLC

VARIABLES
    storage,    \* _IN_MEMORY_STORAGE: insertion-ordered dict, a sequence of [key, val]
    env,        \* the DO_* environment switches read by _get_pipeline_config
    mode,       \* per execution: "none" | "run" | "stream"
    topic,      \* per execution: the topic argument
    pc,         \* per execution: position of the caller-side code
    wpc,        \* per execution: position of the pipeline / worker thread
    config,     \* per execution: pipeline_config captured from env
    wrote,      \* per execution: the artifact kinds its running pipeline has written so far
    queue,      \* per execution: callback_handler.message_queue
    produced,   \* per execution: every message put on the queue, in order (history)
    chunks,     \* per execution: the chunks yielded to the consumer so far
    article,    \* per execution: result_container["article"] / value to return
    error,      \* per execution: result_container["error"] / exception caught
    raised,     \* per execution: the exception raised inside the pipeline or resolution (history)
    files,      \* per execution: all_files, the local listing of _get_article_from_memory
    outcome,    \* per execution: what the caller finally got (returned value or raised exception)
    handler,    \* per execution: the callback handler it uses (its own, or one passed in)
    disk,       \* the paths that exist on the real filesystem because of the service
    context,    \* the value of request_id_context in each execution context
    mpc,        \* per request: position in RequestIDMiddleware.dispatch and the route handler
    request_id, \* per request: dispatch's local request_id
    token,      \* per request: the old value held by the token of request_id_context.set
    response,   \* per request: what dispatch handed back (the X-Request-ID header, or the error)
    seen,       \* per request: what get_request_id() returned where it was evaluated (history)
    last,       \* the store operation applied last: its name, arguments and result
    written,    \* the paths, as given, passed to write since the last clear (history)
    stage_info, \* the _stage_info of the handler H
    call,       \* the method of the handler H called last: its name, what it appended or returned
    environ,    \* os.environ: the API keys (None when the variable is absent)
    service,    \* what StormService() gave: nothing yet, the object, or the error raised
    threads,    \* per pipeline thread: its place in on_dialogue_turn_end and its locals
    timeouts    \* per execution: the polls of the bridge that timed out (history)

\* The state of the request-id middleware and of the store exerciser.
mwvars == <<context, mpc, request_id, token, response, seen>>
storevars == <<last, written>>
adaptervars == <<stage_info, call>>

\* The process around the executions: its environment and service object,
\* the pipeline's own threads, and the bridge's empty polls.
procvars == <<environ, service, threads, timeouts>>

\* The state of the executions of run and run_with_streaming.
runvars == <<env, mode, topic, pc, wpc, config, wrote, produced,
             chunks, article, error, raised, files, outcome, handler, disk>>

\* The executions and the handlers' queues.
execvars == <<queue, runvars>>

\* The state of the service: the store and the executions.
svcvars == <<storage, execvars>>

vars == <<svcvars, mwvars, storevars, adaptervars, procvars>>

----------------------------------------------------------------------------
(* Bounds and inputs *)

\* The most lifecycle callbacks the pipeline runs emit in all; one run may emit
\* all of them.
MaxEvents == 2

\* The execution slots: two requests that may overlap.
Execs == {"A", "B"}

\* The callback handlers: the one each execution makes for itself when none is
\* passed in, named as the execution, and one handler H made by a caller.
Handlers == Execs \cup {"H"}

Topics == {"Python", "Java"}

\* The slots are interchangeable, so A is the request that arrives first and
\* its topic is fixed; B's topic is the same or another.
TopicsOf(e) == IF e = "A" THEN {"Python"} ELSE Topics

\* run writes under its own fresh directory whatever the topic is.
RunTopics == {"Python"}

\* Python's None, the empty string, and the separators.
None == <<"None">>
EmptyStr == <<>>
SEP == "/"
BACKSLASH == "\\"

\* Artifact kinds in the order the pipeline's stages write them.
Kinds == <<"outline", "draft", "polished">>
KindIndex(k) == CHOOSE i \in DOMAIN Kinds : Kinds[i] = k

\* The DO_* switches: every stage on (the defaults), or polishing switched off.
Configs ==
    { [do_research |-> TRUE, do_generate_outline |-> TRUE,
       do_generate_article |-> TRUE, do_polish_article |-> TRUE],
      [do_research |-> TRUE, do_generate_outline |-> TRUE,
       do_generate_article |-> TRUE, do_polish_article |-> FALSE] }

NoConfig == [do_research |-> FALSE, do_generate_outline |-> FALSE,
             do_generate_article |-> FALSE, do_polish_article |-> FALSE]

\* Exception type names a pipeline run may raise.
PipelineErrors == {"Exception", "RatelimitException", "AssertionError"}

----------------------------------------------------------------------------
(* The artifact store: storm_service.py lines 21-63 *)

\* A normalisation that replaces the first backslash only.
_normalize_path_FirstOnly(file_path) ==
    [i \in DOMAIN file_path |->
        IF file_path[i] = "\\" /\ \A j \in 1 .. (i - 1) : file_path[j] # "\\"
        THEN "/" ELSE file_path[i]]

\* A normalisation that leaves the path as given.
_normalize_path_Identity(file_path) == file_path

\* file_path.replace("\\", "/")
_normalize_path(file_path) ==
    [i \in DOMAIN file_path |->
        IF file_path[i] = BACKSLASH THEN SEP ELSE file_path[i]]

Keys(st) == [i \in DOMAIN st |-> st[i].key]

KeySet(st) == {st[i].key : i \in DOMAIN st}

IndexOf(st, key) == CHOOSE i \in DOMAIN st : st[i].key = key

\* A write that uses the path as given for the key.
_write_in_memory_RawKey(st, s, file_path) ==
    IF file_path \in KeySet(st)
    THEN [st EXCEPT ![IndexOf(st, file_path)].val = s]
    ELSE Append(st, [key |-> file_path, val |-> s])

\* _IN_MEMORY_STORAGE[key] = s: an existing key keeps its place in the dict.
_write_in_memory(st, s, file_path) ==
    LET key == _normalize_path(file_path) IN
    IF key \in KeySet(st)
    THEN [st EXCEPT ![IndexOf(st, key)].val = s]
    ELSE Append(st, [key |-> key, val |-> s])

\* A read by subscript, _IN_MEMORY_STORAGE[key]: KeyError for an absent key.
_read_in_memory_Subscript(st, file_path) ==
    LET key == _normalize_path(file_path) IN
    IF key \in KeySet(st) THEN st[IndexOf(st, key)].val
    ELSE <<"KeyError", "'">> \o key \o <<"'">>

\* _IN_MEMORY_STORAGE.get(key, "")
_read_in_memory(st, file_path) ==
    LET key == _normalize_path(file_path) IN
    IF key \in KeySet(st) THEN st[IndexOf(st, key)].val ELSE EmptyStr

_exists_in_memory(st, file_path) == _normalize_path(file_path) \in KeySet(st)

StartsWith(s, prefix) ==
    /\ Len(prefix) <= Len(s)
    /\ SubSeq(s, 1, Len(prefix)) = prefix

\* A listing that filters by the prefix as given, without a closing separator.
_list_files_in_memory_NoCoerce(st, directory) ==
    LET prefix == _normalize_path(directory)
        Match(key) == StartsWith(key, prefix)
    IN SelectSeq(Keys(st), Match)

_list_files_in_memory(st, directory) ==
    LET norm == _normalize_path(directory)
        prefix == IF norm # <<>> /\ norm[Len(norm)] # SEP
                  THEN Append(norm, SEP) ELSE norm
        Match(key) == StartsWith(key, prefix)
    IN SelectSeq(Keys(st), Match)

\* A clear that leaves the dict as it is.
clear_memory_storage_Noop == storage

clear_memory_storage == <<>>

get_memory_storage_size(st) == Len(st)

get_memory_storage_files(st) == Keys(st)

----------------------------------------------------------------------------
(* Exceptions and messages *)

\* An exception is its type name followed by its message; str(e) is the message.
Exc(type, msg) == <<type>> \o msg
TypeName(e) == e[1]
Str(e) == Tail(e)

\* "RatelimitException" in type(e).__name__
IsRatelimit(e) == TypeName(e) \in {"RatelimitException"}

RATE_LIMIT_MSG == <<"Search rate limit exceeded. Try again in a few moments.">>

\* f"STORM {error_type}: {message}\nTraceback: {traceback.format_exc()}"
_format_error(error_type, message) ==
    Exc("Exception",
        <<"STORM ", error_type, ": ">> \o message \o <<"\nTraceback: ", "<traceback>">>)

\* The i-th progress line an execution's Lifecycle Adapter formats.
Msg(e, i) == <<"progress ", e, " ", ToString(i)>>

\* f"{message}\n"
Line(message) == message \o <<"\n">>

----------------------------------------------------------------------------
(* The pipeline's files *)

FileName(kind) ==
    CASE kind = "outline"  -> "storm_gen_outline.txt"
      [] kind = "draft"    -> "storm_gen_article.txt"
      [] kind = "polished" -> "polished_article.txt"

\* run passes tempfile.mkdtemp(), a fresh directory per call;
\* run_with_streaming passes "/dev/null".
OutputDir(e, m) ==
    IF m = "stream" THEN <<SEP, "dev", SEP, "null">>
    ELSE <<SEP, "tmp", SEP, "tmp_" \o e>>

\* The docstring's /dev/null/TopicName/polished_article.txt
ArtifactPath(e, m, t, kind) == OutputDir(e, m) \o <<SEP, t, SEP, FileName(kind)>>

\* What execution e's pipeline writes as its artifact of that kind.
Content(e, kind) == <<e, kind>>
Owner(content) == content[1]
KindOf(content) == content[2]

StageEnabled(cfg, kind) ==
    CASE kind = "outline"  -> cfg.do_generate_outline
      [] kind = "draft"    -> cfg.do_generate_article
      [] kind = "polished" -> cfg.do_polish_article

\* `name in f` for a file name without separators: the match lies within one
\* path component, and no component used here strictly contains another name.
Contains(f, name) == \E i \in DOMAIN f : f[i] = name

----------------------------------------------------------------------------
(* Artifact resolution: storm_service.py lines 429-464 *)

\* A lookup with dict.get: None, and no error, when the key is gone.
Subscript_DictGet(st, key) ==
    IF key \in {st[i].key : i \in DOMAIN st}
    THEN [article |-> st[CHOOSE i \in DOMAIN st : st[i].key = key].val, error |-> None]
    ELSE [article |-> None, error |-> None]

\* _IN_MEMORY_STORAGE[key]: KeyError when the key is gone.
Subscript(st, key) ==
    IF key \in KeySet(st)
    THEN [article |-> st[IndexOf(st, key)].val, error |-> None]
    ELSE [article |-> None, error |-> Exc("KeyError", <<"'">> \o key \o <<"'">>)]

\* A resolution without the fallback: with polishing enabled only a polished
\* article will do.
_get_article_from_memory_NoFallback(all_files, st, cfg) ==
    LET IsPolished(f) == Contains(f, "polished_article.txt")
        IsDraft(f) == Contains(f, "storm_gen_article.txt")
        polished_files == SelectSeq(all_files, IsPolished)
        draft_files == SelectSeq(all_files, IsDraft)
    IN  IF all_files = <<>>
        THEN [article |-> None,
              error |-> Exc("Exception", <<"No files were generated in memory storage">>)]
        ELSE IF cfg.do_polish_article /\ polished_files # <<>>
        THEN Subscript(st, polished_files[1])
        ELSE IF ~cfg.do_polish_article /\ draft_files # <<>>
        THEN Subscript(st, draft_files[1])
        ELSE [article |-> None,
              error |-> Exc("Exception",
                            <<"No article file found in memory. Available files: ">>)]

\* The body after all_files = _list_files_in_memory(): all_files is the listing
\* taken earlier, st the store as it is when the chosen key is read.
_get_article_from_memory(all_files, st, cfg) ==
    LET IsPolished(f) == Contains(f, "polished_article.txt")
        IsDraft(f) == Contains(f, "storm_gen_article.txt")
        polished_files == SelectSeq(all_files, IsPolished)
        draft_files == SelectSeq(all_files, IsDraft)
    IN  IF all_files = <<>>
        THEN [article |-> None,
              error |-> Exc("Exception", <<"No files were generated in memory storage">>)]
        ELSE IF cfg.do_polish_article /\ polished_files # <<>>
        THEN Subscript(st, polished_files[1])
        ELSE IF draft_files # <<>>
        THEN Subscript(st, draft_files[1])
        ELSE [article |-> None,
              error |-> Exc("Exception",
                            <<"No article file found in memory. Available files: ">>)]

----------------------------------------------------------------------------
(* The request-id context: utils/middleware.py *)

\* Two requests that may be served concurrently.
Requests == {"R1", "R2"}

\* The ids uuid4 may produce; generate_request_id never repeats one.
Ids == {<<"uuid-1">>, <<"uuid-2">>}

\* A ContextVar with no value in a context.
MISSING == <<"Token.MISSING">>

\* The execution contexts of a request: the task dispatch runs in, the task
\* call_next runs the application in, the thread-pool call made by
\* run_in_threadpool, and the thread started by run_with_streaming.
TaskContext_Shared(r) == <<"task", "R1">>
TaskContext(r) == <<"task", r>>
AppContext(r) == <<"app", r>>
PoolContext(r) == <<"pool", r>>
WorkerContext(r) == <<"worker", r>>

Contexts ==
    UNION {{<<"task", r>>, <<"app", r>>, <<"pool", r>>, <<"worker", r>>} : r \in Requests}

\* request_id_context.get(""): the value in the context, or the argument.
ContextVar_get(ctxs, c, default) == IF ctxs[c] = MISSING THEN default ELSE ctxs[c]

\* get_request_id() evaluated in context c
get_request_id(ctxs, c) == ContextVar_get(ctxs, c, EmptyStr)

\* request_id_context.set(value): the new contexts and the token's old value.
ContextVar_set(ctxs, c, value) ==
    [contexts |-> [ctxs EXCEPT ![c] = value], old_value |-> ctxs[c]]

\* A reset that leaves the variable as it is.
ContextVar_reset_Noop(ctxs, c, old_value) == ctxs

\* request_id_context.reset(token): the value the variable had before the set.
ContextVar_reset(ctxs, c, old_value) == [ctxs EXCEPT ![c] = old_value]

\* A task or a thread-pool call starts with a copy of its creator's context.
copy_context(ctxs, parent, child) == [ctxs EXCEPT ![child] = ctxs[parent]]

\* threading.Thread(target=...) given no context: the thread starts with an
\* empty context, in which no variable has a value.
Thread_context(ctxs, parent, child) == [ctxs EXCEPT ![child] = MISSING]

NoResponse == [kind |-> "none", header |-> None]

NothingSeen == [handler |-> None, pool |-> None, worker |-> None]

----------------------------------------------------------------------------
(* The Lifecycle Adapter: core/streaming_callback.py *)

\* StreamingCallbackHandler.add_progress: self.message_queue.put(message)
add_progress(q, message) == Append(q, message)

\* A LIFO queue: get takes the message put last.
queue_get_Lifo(q) == [message |-> q[Len(q)], rest |-> SubSeq(q, 1, Len(q) - 1)]

\* message_queue.get / get_nowait on a non-empty queue.Queue: first in, first out.
queue_get(q) == [message |-> Head(q), rest |-> Tail(q)]

\* The most messages the handler H holds at once, and the most dialogue turns
\* it is told of.
MaxQueued == 3
MaxTurns == 2

\* The longest question on_dialogue_turn_end emits whole.
QUESTION_LIMIT == 80

\* __init__ and clear_progress: the _stage_info of a new or reset handler.
NewStageInfo(t) ==
    [perspectives_count |-> 0, dialogue_turns_count |-> 0,
     current_perspective |-> None, current_query |-> None, topic |-> t,
     perspectives |-> None]   \* the key "perspectives" is absent until set

\* kwargs.get(key, default) for a keyword that is given (a value) or absent (None
\* stands for absent here).
KwargsGet(value, default) == IF value = None THEN default ELSE value

\* A question of n characters, one element per character: 1234567890123...
Digits == <<"0", "1", "2", "3", "4", "5", "6", "7", "8", "9">>
Chars(n) == [i \in 1 .. n |-> Digits[(i % 10) + 1]]

\* The three characters of "..."
ELLIPSIS == <<".", ".", ".">>

\* A handler that emits the question whole, however long.
short_question_Whole(question_str) == question_str

\* question_str[:80] + "..." if len(question_str) > 80 else question_str
short_question(question_str) ==
    IF Len(question_str) > QUESTION_LIMIT
    THEN SubSeq(question_str, 1, QUESTION_LIMIT) \o ELLIPSIS
    ELSE question_str

\* A dialogue turn: the first of the attributes conv_q, question, query it has
\* ("none" when it has none of them), that attribute's text, and str(dlg_turn).
DlgTurn(attr, question) ==
    [attr |-> attr, question |-> question, repr |-> <<"<", "D", "l", "g", ">">>]

\* Lines 207-224: the question is the attribute found, or str(dlg_turn) when
\* no attribute is found or its value is None; question_str = str(question).
question_str_of(dlg_turn) ==
    IF dlg_turn.attr = "none" \/ dlg_turn.question = None
    THEN dlg_turn.repr
    ELSE dlg_turn.question

\* A positional argument the caller left out.
Absent == <<"<absent>">>

\* The lines for the perspectives from the i-th on: f"   {i}. {perspective}"
RECURSIVE PerspectiveLines(_, _)
PerspectiveLines(perspectives, i) ==
    IF i > Len(perspectives) THEN <<>>
    ELSE << <<"   ", ToString(i), ". ", perspectives[i]>> >>
         \o PerspectiveLines(perspectives, i + 1)

\* The handlers the pipeline calls, and the arguments each is given here:
\* a perspective list, a keyword value, or a dialogue turn's question.
HandlerNames ==
    {"on_identify_perspective_start", "on_identify_perspective_end",
     "on_information_gathering_start", "on_information_gathering_end",
     "on_dialogue_turn_end", "on_direct_outline_generation_end",
     "on_outline_refinement_end", "on_information_organization_start"}

HandlerArgs(name) ==
    CASE name = "on_identify_perspective_end" -> {<<>>, <<"History", "Uses">>}
      [] name = "on_information_gathering_start" -> {None, <<"History">>}
      [] name = "on_dialogue_turn_end" ->
            {DlgTurn("conv_q", <<"w", "h", "y">>),
             DlgTurn("question", Chars(QUESTION_LIMIT)),
             DlgTurn("query", Chars(QUESTION_LIMIT + 1))}
      [] OTHER -> {None}

\* Arguments short of what the handler expects: the perspective list None or
\* left out, a dialogue turn with no question attribute; keywords are absent
\* throughout.
DegenerateArgs(name) ==
    CASE name = "on_identify_perspective_end" -> {None, Absent}
      [] name = "on_dialogue_turn_end" -> {DlgTurn("none", None), DlgTurn("query", None)}
      [] OTHER -> {None}

\* The exception a handler call ends with, None when it returns: a missing
\* positional argument fails the call, and len(perspectives) at line 157 is
\* evaluated before anything tests the list.
HandlerRaises(name, arg) ==
    IF name = "on_identify_perspective_end" /\ arg = Absent
    THEN Exc("TypeError", <<"missing 1 required positional argument: 'perspectives'">>)
    ELSE IF name = "on_identify_perspective_end" /\ arg = None
    THEN Exc("TypeError", <<"object of type 'NoneType' has no len()">>)
    ELSE None

\* Handlers that announce a perspective list by its header alone.
HandlerLines_HeaderOnly(info, name, arg) ==
    CASE name = "on_identify_perspective_end" ->
            IF arg # <<>>
            THEN << <<"Identified ", ToString(Len(arg)), " perspectives:">> >>
            ELSE << <<"Using general perspective">> >>
      [] name = "on_dialogue_turn_end" ->
            << <<"  Q", ToString(info.dialogue_turns_count + 1), ": ">>
               \o short_question(question_str_of(arg)) >>
      [] OTHER -> << <<name>> >>

\* One handler called with one argument: the messages it passes to
\* add_progress, in order (lines 129-265).
HandlerLines(info, name, arg) ==
    CASE name = "on_identify_perspective_start" ->
            << <<"Analyzing perspectives for: ">> \o KwargsGet(arg, info.topic) >>
      [] name = "on_identify_perspective_end" ->
            IF arg # <<>>
            THEN << <<"Identified ", ToString(Len(arg)), " perspectives:">> >>
                 \o PerspectiveLines(arg, 1)
            ELSE << <<"Using general perspective">> >>
      [] name = "on_information_gathering_start" ->
            << <<"Gathering information for: ">>
               \o KwargsGet(arg, info.current_perspective) >>
      [] name = "on_information_gathering_end" ->
            << <<"Gathered information from ">> \o KwargsGet(arg, <<"0">>)
               \o <<" sources">> >>
      [] name = "on_dialogue_turn_end" ->
            << <<"  Q", ToString(info.dialogue_turns_count + 1), ": ">>
               \o short_question(question_str_of(arg)) >>
      [] name = "on_direct_outline_generation_end" ->
            << <<"Generating article structure (direct outline)">> >>
      [] name = "on_outline_refinement_end" ->
            << <<"Refining article structure">> >>
      [] name = "on_information_organization_start" ->
            << <<"Organizing research information">> >>

\* What the handler leaves in _stage_info.
HandlerInfo(info, name, arg) ==
    CASE name = "on_identify_perspective_end" ->
            [info EXCEPT !.perspectives_count = Len(arg), !.perspectives = arg]
      [] name = "on_information_gathering_start" ->
            [info EXCEPT !.current_perspective = KwargsGet(arg, info.current_perspective)]
      [] name = "on_dialogue_turn_end" ->
            [info EXCEPT !.dialogue_turns_count = @ + 1,
                         !.current_query = question_str_of(arg)]
      [] OTHER -> info

\* add_progress applied to each message in turn.
RECURSIVE add_all(_, _)
add_all(q, messages) ==
    IF messages = <<>> THEN q
    ELSE add_all(add_progress(q, Head(messages)), Tail(messages))

\* A call on H: the method, its argument, the lines it appended, the list it
\* returned, the exception it raised.
Called(name, arg, appended, result, exc) ==
    [name |-> name, arg |-> arg, appended |-> appended, result |-> result, exc |-> exc]

NoCall == Called("none", None, <<>>, <<>>, None)

\* A get_progress that takes the first message only.
get_progress_FirstOnly(q) == IF q = <<>> THEN <<>> ELSE <<queue_get(q).message>>

\* get_progress: get_nowait until the queue is empty, the messages in the
\* order taken.
RECURSIVE get_progress(_)
get_progress(q) ==
    IF q = <<>> THEN <<>>
    ELSE <<queue_get(q).message>> \o get_progress(queue_get(q).rest)

\* The pipeline (or a test) calls one handler of H.
HandlerCall(name, arg) ==
    /\ IF HandlerRaises(name, arg) # None
       THEN /\ call' = Called(name, arg, <<>>, <<>>, HandlerRaises(name, arg))
            /\ UNCHANGED <<queue, stage_info>>
       ELSE /\ Len(queue["H"]) + Len(HandlerLines(stage_info, name, arg)) <= MaxQueued
            /\ name = "on_dialogue_turn_end" => stage_info.dialogue_turns_count < MaxTurns
            /\ queue' = [queue EXCEPT !["H"] = add_all(@, HandlerLines(stage_info, name, arg))]
            /\ stage_info' = HandlerInfo(stage_info, name, arg)
            /\ call' = Called(name, arg, HandlerLines(stage_info, name, arg), <<>>, None)
    /\ UNCHANGED <<storage, runvars, mwvars, storevars, procvars>>

\* get_progress() on H.
GetProgress ==
    /\ call' = Called("get_progress", None, <<>>, get_progress(queue["H"]), None)
    /\ queue' = [queue EXCEPT !["H"] = <<>>]
    /\ UNCHANGED <<storage, runvars, mwvars, storevars, procvars, stage_info>>

\* clear_progress() on H.
ClearProgress ==
    /\ queue' = [queue EXCEPT !["H"] = <<>>]
    /\ stage_info' = NewStageInfo(stage_info.topic)
    /\ call' = Called("clear_progress", None, <<>>, <<>>, None)
    /\ UNCHANGED <<storage, runvars, mwvars, storevars, procvars>>


----------------------------------------------------------------------------
(* Store operations applied directly *)

NoOp == [op |-> "none", path |-> <<>>, content |-> <<>>, result |-> <<>>]

Seps == {SEP, BACKSLASH}

\* The paths given to the store: a file, a file in a directory, a file two
\* directories deep, with either separator at each place.
StorePaths ==
    {<<"f">>}
    \cup {<<"d", s1, "f">> : s1 \in Seps}
    \cup {<<"d", s1, "e", s2, "f">> : s1 \in Seps, s2 \in Seps}

StoreContents == {<<"x">>, <<"y">>}

\* Paths spelt character by character, so that a prefix may end inside a name:
\* the file t, the file a in directory t, the file a in directory tt.
ListPaths ==
    {<<"t">>}
    \cup {<<"t", s1, "a">> : s1 \in Seps}
    \cup {<<"t", "t", s1, "a">> : s1 \in Seps}

\* The directory arguments given to the listing.
ListDirs ==
    {<<>>, <<"t">>, <<"t", "t">>, <<"a">>} \cup {<<"t", s1>> : s1 \in Seps}

----------------------------------------------------------------------------
(* Initial state *)

NoOutcome == [kind |-> "none", val |-> None]

----------------------------------------------------------------------------
(* StormService(): storm_service.py lines 95-157 *)

\* The values an API key variable may have: absent (os.getenv gives None),
\* empty, or a key.
KeyValues == {None, EmptyStr, <<"sk-1">>, <<"key-1">>}

Environs == [DEEPSEEK_API_KEY : KeyValues, SERPER_API_KEY : KeyValues]

\* A test for None only, which lets the empty string through.
Missing_NoneOnly(api_key) == api_key = None

\* `not api_key`: None and the empty string are both falsy.
Missing(api_key) == api_key = None \/ api_key = EmptyStr

NoService == [kind |-> "none", lm_configs |-> None, retriever |-> None, error |-> None]

\* __init__: _setup_llm, then _setup_retriever; either raises ValueError.
StormService(environment) ==
    IF Missing(environment.DEEPSEEK_API_KEY)
    THEN [kind |-> "raised", lm_configs |-> None, retriever |-> None,
          error |-> Exc("ValueError", <<"DEEPSEEK_API_KEY required. Get it at: https://platform.deepseek.com/">>)]
    ELSE IF Missing(environment.SERPER_API_KEY)
    THEN [kind |-> "raised", lm_configs |-> None, retriever |-> None,
          error |-> Exc("ValueError", <<"SERPER_API_KEY required. Get free key at: https://serper.dev/">>)]
    ELSE [kind |-> "object", lm_configs |-> environment.DEEPSEEK_API_KEY,
          retriever |-> environment.SERPER_API_KEY, error |-> None]

\* run and run_with_streaming are methods: there is an object to call them on.
Constructed == service.kind = "object"

\* The threads of the pipeline's conversation stage (MAX_THREAD_NUM, 2 by default).
Threads == {"T1", "T2"}

NoThread == [pc |-> "idle", value |-> 0, turn_num |-> 0, calls |-> 0]

ProcessInit ==
    /\ storage = <<>>
    /\ env \in Configs
    /\ mode = [e \in Execs |-> "none"]
    /\ topic = [e \in Execs |-> "Python"]
    /\ pc = [e \in Execs |-> "idle"]
    /\ wpc = [e \in Execs |-> "none"]
    /\ config = [e \in Execs |-> NoConfig]
    /\ wrote = [e \in Execs |-> {}]
    /\ queue = [h \in Handlers |-> <<>>]
    /\ produced = [e \in Execs |-> <<>>]
    /\ chunks = [e \in Execs |-> <<>>]
    /\ article = [e \in Execs |-> None]
    /\ error = [e \in Execs |-> None]
    /\ raised = [e \in Execs |-> None]
    /\ files = [e \in Execs |-> <<>>]
    /\ outcome = [e \in Execs |-> NoOutcome]
    /\ handler = [e \in Execs |-> e]
    /\ disk = {}
    /\ context = [c \in Contexts |-> MISSING]
    /\ mpc = [r \in Requests |-> [d |-> "idle", a |-> "none"]]
    /\ request_id = [r \in Requests |-> None]
    /\ token = [r \in Requests |-> None]
    /\ response = [r \in Requests |-> NoResponse]
    /\ seen = [r \in Requests |-> NothingSeen]
    /\ last = NoOp
    /\ stage_info = NewStageInfo(<<"Python">>)
    /\ call = NoCall
    /\ written = {}
    /\ threads = [t \in Threads |-> NoThread]
    /\ timeouts = [e \in Execs |-> 0]

\* The service object was made when api/routes.py was imported, with both
\* keys in the environment.
Init ==
    /\ ProcessInit
    /\ environ = [DEEPSEEK_API_KEY |-> <<"sk-1">>, SERPER_API_KEY |-> <<"key-1">>]
    /\ service = StormService(environ)

\* A liveness test that goes on answering True once the thread has been started.
IsAlive_NeverDies(e) == wpc[e] # "none"

\* A thread reported dead as soon as runner.run has returned, while run_storm
\* is still fetching the article.
IsAlive_DeadWhileReading(e) == wpc[e] = "running"

\* storm_thread.is_alive(): the worker is between start() and the end of run_storm.
IsAlive(e) == wpc[e] \in {"running", "reading"}

----------------------------------------------------------------------------
(* The pipeline, runner.run(...), as the code hosting it sees it *)

RECURSIVE SumLen(_, _)
SumLen(f, S) ==
    IF S = {} THEN 0
    ELSE LET x == CHOOSE y \in S : TRUE IN Len(f[x]) + SumLen(f, S \ {x})

Emitted == SumLen(produced, Execs)

\* A queue made with maxsize 1: a put waits while one message is in it.
Full_Bounded(q) == Len(q) >= 1

\* queue.Queue() has maxsize 0, so put(message) never waits for room.
Full(q) == FALSE

\* A lifecycle callback formats one line and adds it to the queue.
\* run passes no callback handler, so only a streaming run emits.
PipelineEmit(e) ==
    /\ wpc[e] = "running"
    /\ mode[e] = "stream"
    /\ Emitted < MaxEvents
    /\ ~Full(queue[handler[e]])
    /\ LET message == Msg(e, Len(produced[e]) + 1) IN
        /\ queue' = [queue EXCEPT ![handler[e]] = add_progress(@, message)]
        /\ produced' = [produced EXCEPT ![e] = Append(@, message)]
    /\ UNCHANGED <<mwvars, storevars, adaptervars, procvars>>
    /\ UNCHANGED <<handler, disk>>
    /\ UNCHANGED <<storage, env, mode, topic, pc, wpc, config, wrote, chunks,
                   article, error, raised, files, outcome>>

\* FileIOHelper.write_str = _write_in_memory: the next stage writes its artifact
\* (outline, then draft, then polished article, when the stage is switched on).
PipelineWrite(e, kind) ==
    /\ wpc[e] = "running"
    /\ StageEnabled(config[e], kind)
    /\ KindIndex(kind) = Cardinality(wrote[e]) + 1
    /\ storage' = _write_in_memory(storage, Content(e, kind),
                                   ArtifactPath(e, mode[e], topic[e], kind))
    /\ wrote' = [wrote EXCEPT ![e] = @ \cup {kind}]
    /\ UNCHANGED <<mwvars, storevars, adaptervars, procvars>>
    /\ UNCHANGED <<handler, disk>>
    /\ UNCHANGED <<env, mode, topic, pc, wpc, config, queue, produced, chunks,
                   article, error, raised, files, outcome>>

\* A worker whose except clause lets AssertionError through, as run's first
\* except clause treats it apart: the thread dies of it and no slot is set.
run_storm_except_AssertionEscapes(exc) ==
    IF TypeName(exc) = "AssertionError"
    THEN [error |-> None, wpc |-> "escaped"]
    ELSE [error |-> exc, wpc |-> "done"]

\* run_storm's `except Exception as e: result_container["error"] = e`; in run the
\* exception reaches run's own except clauses, which hold it as e.
run_storm_except(exc) == [error |-> exc, wpc |-> "done"]

Catch(e, exc) ==
    /\ raised' = [raised EXCEPT ![e] = exc]
    /\ error' = [error EXCEPT ![e] = run_storm_except(exc).error]
    /\ wpc' = [wpc EXCEPT ![e] = run_storm_except(exc).wpc]

\* runner.run raises.
PipelineRaise(e, type) ==
    /\ wpc[e] = "running"
    /\ Catch(e, Exc(type, <<"pipeline failure">>))
    /\ wrote' = [wrote EXCEPT ![e] = {}]
    /\ UNCHANGED <<mwvars, storevars, adaptervars, procvars>>
    /\ UNCHANGED <<handler, disk>>
    /\ UNCHANGED <<storage, env, mode, topic, pc, config, queue, produced,
                   chunks, article, files, outcome>>

\* runner.run returns and _get_article_from_memory takes its listing:
\* all_files = _list_files_in_memory()
PipelineReturn(e) ==
    /\ wpc[e] = "running"
    /\ files' = [files EXCEPT ![e] = _list_files_in_memory(storage, <<>>)]
    /\ wpc' = [wpc EXCEPT ![e] = "reading"]
    /\ wrote' = [wrote EXCEPT ![e] = {}]
    /\ UNCHANGED <<mwvars, storevars, adaptervars, procvars>>
    /\ UNCHANGED <<handler, disk>>
    /\ UNCHANGED <<storage, env, mode, topic, pc, config, queue, produced,
                   chunks, article, error, raised, outcome>>

\* Another thread may write to or clear the dict while the list comprehension
\* iterates over it: "dictionary changed size during iteration".
ResolveListRace(e) ==
    /\ wpc[e] = "running"
    /\ \E o \in Execs \ {e} : wpc[o] = "running" \/ pc[o] = "idle"
    /\ Catch(e, Exc("RuntimeError", <<"dictionary changed size during iteration">>))
    /\ wrote' = [wrote EXCEPT ![e] = {}]
    /\ UNCHANGED <<mwvars, storevars, adaptervars, procvars>>
    /\ UNCHANGED <<handler, disk>>
    /\ UNCHANGED <<storage, env, mode, topic, pc, config, queue, produced,
                   chunks, article, files, outcome>>

\* The rest of _get_article_from_memory: choose a file of the listing and read it
\* from the store as it is now; the function returns or raises, and its listing
\* is gone with it.
ResolveRead(e) ==
    /\ wpc[e] = "reading"
    /\ LET r == _get_article_from_memory(files[e], storage, config[e]) IN
        IF r.error = None
        THEN /\ article' = [article EXCEPT ![e] = r.article]
             /\ wpc' = [wpc EXCEPT ![e] = "done"]
             /\ UNCHANGED <<error, raised>>
        ELSE /\ Catch(e, r.error)
             /\ UNCHANGED article
    /\ files' = [files EXCEPT ![e] = <<>>]
    /\ UNCHANGED <<mwvars, storevars, adaptervars, procvars>>
    /\ UNCHANGED <<handler, disk>>
    /\ UNCHANGED <<storage, env, mode, topic, pc, config, wrote, queue, produced,
                   chunks, outcome>>

----------------------------------------------------------------------------
(* StormService.run: storm_service.py lines 174-221 *)

\* Except clauses without the rate-limit test: every Exception is formatted as
\* a pipeline failure.
run_except_NoRateLimitTest(exc) ==
    IF TypeName(exc) = "AssertionError"
    THEN _format_error("Assertion error", Str(exc))
    ELSE _format_error("Pipeline execution failed", Str(exc))

\* run's except clauses: AssertionError, then Exception with the rate-limit test.
run_except(exc) ==
    IF TypeName(exc) = "AssertionError"
    THEN _format_error("Assertion error", Str(exc))
    ELSE IF IsRatelimit(exc)
    THEN Exc("Exception", RATE_LIMIT_MSG)
    ELSE _format_error("Pipeline execution failed", Str(exc))

\* A request is accepted.
Arrives(e) == Constructed /\ pc[e] = "idle" /\ (e = "B" => pc["A"] # "idle")

\* tempfile.mkdtemp(): a fresh directory is made on the real filesystem.
mkdtemp(fs, e) == fs \cup {OutputDir(e, "run")}

\* clear_memory_storage(), then the temporary directory is made, the runner
\* is built and runner.run is entered.
RunStart(e, t) ==
    /\ Arrives(e)
    /\ storage' = clear_memory_storage
    /\ mode' = [mode EXCEPT ![e] = "run"]
    /\ topic' = [topic EXCEPT ![e] = t]
    /\ config' = [config EXCEPT ![e] = env]
    /\ wpc' = [wpc EXCEPT ![e] = "running"]
    /\ pc' = [pc EXCEPT ![e] = "calling"]
    /\ UNCHANGED <<mwvars, storevars, adaptervars, procvars>>
    /\ UNCHANGED handler
    /\ disk' = mkdtemp(disk, e)
    /\ UNCHANGED <<env, wrote, queue, produced, chunks, article, error, raised,
                   files, outcome>>

\* return self._get_article_from_memory(pipeline_config)
RunReturn(e) ==
    /\ pc[e] = "calling" /\ mode[e] = "run"
    /\ wpc[e] = "done"
    /\ error[e] = None
    /\ outcome' = [outcome EXCEPT ![e] = [kind |-> "returned", val |-> article[e]]]
    /\ pc' = [pc EXCEPT ![e] = "done"]
    /\ UNCHANGED <<mwvars, storevars, adaptervars, procvars>>
    /\ UNCHANGED <<handler, disk>>
    /\ UNCHANGED <<storage, env, mode, topic, wpc, config, wrote, queue, produced,
                   chunks, article, error, raised, files>>

RunRaise(e) ==
    /\ pc[e] = "calling" /\ mode[e] = "run"
    /\ wpc[e] = "done"
    /\ error[e] # None
    /\ outcome' = [outcome EXCEPT ![e] = [kind |-> "raised", val |-> run_except(error[e])]]
    /\ pc' = [pc EXCEPT ![e] = "done"]
    /\ UNCHANGED <<mwvars, storevars, adaptervars, procvars>>
    /\ UNCHANGED <<handler, disk>>
    /\ UNCHANGED <<storage, env, mode, topic, wpc, config, wrote, queue, produced,
                   chunks, article, error, raised, files>>

----------------------------------------------------------------------------
(* StormService.run_with_streaming: storm_service.py lines 223-344 *)

\* f"Starting research on: {topic}\n\n"
Starting(t) == <<"Starting research on: ", t, "\n\n">>

IfLine(flag, text) == IF flag THEN <<text>> ELSE <<>>

\* Lines 314-330: the chunks between the last progress line and the article.
StageLines(cfg) ==
    <<  <<"\n">>  >>
    \o IfLine(cfg.do_research, <<"Research phase complete", "\n\n">>)
    \o IfLine(cfg.do_generate_outline, <<"Outline generated", "\n\n">>)
    \o IfLine(cfg.do_generate_article, <<"Article generated", "\n\n">>)
    \o IfLine(cfg.do_polish_article, <<"Article polished", "\n\n">>)
    \o <<  <<"Final Article:", "\n">>, <<"----------------------------------------", "\n\n">>  >>

\* Lines 306-312 (and 338-344): the error line yielded and the exception raised.
report_error(err) ==
    IF IsRatelimit(err)
    THEN [chunk |-> <<"Search rate limit exceeded. Try again in a few moments.", "\n">>,
          exc |-> Exc("Exception", RATE_LIMIT_MSG)]
    ELSE [chunk |-> <<"Pipeline execution failed: ">> \o Str(err) \o <<"\n">>,
          exc |-> _format_error("Pipeline execution failed", Str(err))]

\* Lines 335-344: the except clauses around the generator's body.
stream_except(exc) ==
    IF TypeName(exc) = "AssertionError"
    THEN [chunk |-> <<"Assertion error: ">> \o Str(exc) \o <<"\n">>,
          exc |-> _format_error("Assertion error", Str(exc))]
    ELSE report_error(exc)

\* Lines 240-254: clear the store, take the handler h (a new one, or the one
\* passed in) and reset it with clear_progress, yield the banner.
StreamStartWith(e, t, h) ==
    /\ Arrives(e)
    /\ storage' = clear_memory_storage
    /\ mode' = [mode EXCEPT ![e] = "stream"]
    /\ topic' = [topic EXCEPT ![e] = t]
    /\ handler' = [handler EXCEPT ![e] = h]
    /\ queue' = [queue EXCEPT ![h] = <<>>]
    /\ chunks' = [chunks EXCEPT ![e] = <<Starting(t)>>]
    /\ pc' = [pc EXCEPT ![e] = "setup"]
    /\ IF h = "H"
       THEN /\ stage_info' = NewStageInfo(stage_info.topic)
            /\ call' = Called("clear_progress", None, <<>>, <<>>, None)
       ELSE UNCHANGED adaptervars
    /\ UNCHANGED <<mwvars, storevars, procvars>>
    /\ UNCHANGED disk
    /\ UNCHANGED <<env, wpc, config, wrote, produced, article, error, raised,
                   files, outcome>>

\* callback_handler is None: the execution makes a handler of its own.
StreamStart(e, t) == StreamStartWith(e, t, e)

\* Lines 256-282: build the runner, read the config, start the worker thread.
StreamLaunch(e) ==
    /\ pc[e] = "setup"
    /\ config' = [config EXCEPT ![e] = env]
    /\ wpc' = [wpc EXCEPT ![e] = "running"]
    /\ pc' = [pc EXCEPT ![e] = "poll"]
    /\ UNCHANGED <<mwvars, storevars, adaptervars, procvars>>
    /\ UNCHANGED <<handler, disk>>
    /\ UNCHANGED <<storage, env, mode, topic, wrote, queue, produced, chunks,
                   article, error, raised, files, outcome>>

\* The chunks after one message has been forwarded: yield f"{message}\n"
Forward(cs, message) == Append(cs, Line(message))

\* A bridge that goes on to its terminal chunks without the final sweep.
Drained_NoSweep(e) == TRUE

\* Line 298: `while not callback_handler.message_queue.empty()` has ended.
Drained(e) == queue[handler[e]] = <<>>

\* Lines 285-289: while storm_thread.is_alive(): message = get(timeout=0.1); yield
PollGet(e) ==
    /\ pc[e] = "poll"
    /\ IsAlive(e)
    /\ queue[handler[e]] # <<>>
    /\ chunks' = [chunks EXCEPT ![e] = Forward(@, queue_get(queue[handler[e]]).message)]
    /\ queue' = [queue EXCEPT ![handler[e]] = queue_get(@).rest]
    /\ UNCHANGED <<mwvars, storevars, adaptervars, procvars>>
    /\ UNCHANGED <<handler, disk>>
    /\ UNCHANGED <<storage, env, mode, topic, pc, wpc, config, wrote, produced,
                   article, error, raised, files, outcome>>

\* Lines 290-292: except queue.Empty: continue
PollTimeout(e) ==
    /\ pc[e] = "poll"
    /\ IsAlive(e)
    /\ queue[handler[e]] = <<>>
    /\ UNCHANGED vars

\* Lines 285, 295-303: the worker has terminated, so the loop ends, join returns
\* and what is left on the queue is forwarded: get_nowait(); yield
DrainGet(e) ==
    /\ pc[e] = "poll"
    /\ ~IsAlive(e)
    /\ queue[handler[e]] # <<>>
    /\ chunks' = [chunks EXCEPT ![e] = Forward(@, queue_get(queue[handler[e]]).message)]
    /\ queue' = [queue EXCEPT ![handler[e]] = queue_get(@).rest]
    /\ UNCHANGED <<mwvars, storevars, adaptervars, procvars>>
    /\ UNCHANGED <<handler, disk>>
    /\ UNCHANGED <<storage, env, mode, topic, pc, wpc, config, wrote, produced,
                   article, error, raised, files, outcome>>

\* A bridge that never looks at the error slot.
ErrorSet_Never(e) == FALSE

\* if result_container["error"]: an exception object is truthy.
ErrorSet(e) == error[e] # None

\* A bridge that yields the article before its closing lines.
FinishChunks_ArticleFirst(cfg, art) == <<art>> \o StageLines(cfg)

\* A bridge that yields the article alone, without the closing lines.
FinishChunks_ArticleOnly(cfg, art) == <<art>>

\* Lines 314-333: the chunks of a run whose error slot is empty.
FinishChunks(cfg, art) == StageLines(cfg) \o <<art>>

StreamFinish(e) ==
    /\ pc[e] = "poll"
    /\ ~IsAlive(e)
    /\ Drained(e)
    /\ ~ErrorSet(e)
    /\ chunks' = [chunks EXCEPT ![e] = @ \o FinishChunks(config[e], article[e])]
    /\ outcome' = [outcome EXCEPT ![e] = [kind |-> "completed", val |-> None]]
    /\ pc' = [pc EXCEPT ![e] = "done"]
    /\ UNCHANGED <<mwvars, storevars, adaptervars, procvars>>
    /\ UNCHANGED <<handler, disk>>
    /\ UNCHANGED <<storage, env, mode, topic, wpc, config, wrote, queue, produced,
                   article, error, raised, files>>

\* Lines 306-312 raise inside the try block, so lines 338-344 catch what they
\* raise, yield a second error line and raise again.
StreamFail(e) ==
    /\ pc[e] = "poll"
    /\ ~IsAlive(e)
    /\ Drained(e)
    /\ ErrorSet(e)
    /\ LET first == report_error(error[e])
           second == stream_except(first.exc)
       IN /\ chunks' = [chunks EXCEPT ![e] = @ \o <<first.chunk, second.chunk>>]
          /\ outcome' = [outcome EXCEPT ![e] = [kind |-> "raised", val |-> second.exc]]
    /\ pc' = [pc EXCEPT ![e] = "done"]
    /\ UNCHANGED <<mwvars, storevars, adaptervars, procvars>>
    /\ UNCHANGED <<handler, disk>>
    /\ UNCHANGED <<storage, env, mode, topic, wpc, config, wrote, queue, produced,
                   article, error, raised, files>>

----------------------------------------------------------------------------
(* The specification: two requests served concurrently *)

Next ==
    \E e \in Execs :
        \/ \E t \in RunTopics : RunStart(e, t)
        \/ \E t \in TopicsOf(e) : StreamStart(e, t)
        \/ StreamLaunch(e)
        \/ PipelineEmit(e)
        \/ \E kind \in {"outline", "draft", "polished"} : PipelineWrite(e, kind)
        \/ \E type \in PipelineErrors : PipelineRaise(e, type)
        \/ PipelineReturn(e)
        \/ ResolveListRace(e)
        \/ ResolveRead(e)
        \/ RunReturn(e)
        \/ RunRaise(e)
        \/ PollGet(e)
        \/ PollTimeout(e)
        \/ DrainGet(e)
        \/ StreamFinish(e)
        \/ StreamFail(e)

Spec == Init /\ [][Next]_vars

----------------------------------------------------------------------------
(* Requests through RequestIDMiddleware: utils/middleware.py lines 82-116,  *)
(* api/routes.py lines 134-249, storm_service.py line 281                   *)

\* The ids generated so far; uuid4 does not repeat one.
UsedIds == {request_id[r] : r \in Requests} \ {None}

\* Lines 103-105: generate the id and bind it in the context dispatch runs in.
Dispatch_Bind(r) ==
    /\ mpc[r].d = "idle"
    /\ \E id \in Ids \ UsedIds :
        LET bound == ContextVar_set(context, TaskContext(r), id) IN
        /\ request_id' = [request_id EXCEPT ![r] = id]
        /\ token' = [token EXCEPT ![r] = bound.old_value]
        /\ context' = bound.contexts
    /\ mpc' = [mpc EXCEPT ![r].d = "bound"]
    /\ UNCHANGED <<response, seen>>
    /\ UNCHANGED <<svcvars, storevars, adaptervars, procvars>>

\* Line 109: call_next runs the application in a task of its own, started with
\* a copy of the context of dispatch.
CallNext(r) ==
    /\ mpc[r].d = "bound"
    /\ context' = copy_context(context, TaskContext(r), AppContext(r))
    /\ mpc' = [mpc EXCEPT ![r] = [d |-> "awaiting", a |-> "started"]]
    /\ UNCHANGED <<request_id, token, response, seen>>
    /\ UNCHANGED <<svcvars, storevars, adaptervars, procvars>>

\* routes.py lines 188, 234: the handler's request_id = get_request_id()
HandlerRead(r) ==
    /\ mpc[r].a = "started"
    /\ seen' = [seen EXCEPT ![r].handler = get_request_id(context, AppContext(r))]
    /\ mpc' = [mpc EXCEPT ![r].a = "read"]
    /\ UNCHANGED <<context, request_id, token, response>>
    /\ UNCHANGED <<svcvars, storevars, adaptervars, procvars>>

\* routes.py line 207: run_in_threadpool(service.run, topic): the call runs in a
\* pool thread with a copy of the handler's context; what get_request_id()
\* returns there is recorded.
HandlerRun(r) ==
    /\ mpc[r].a = "read"
    /\ LET ctxs == copy_context(context, AppContext(r), PoolContext(r)) IN
        /\ context' = ctxs
        /\ seen' = [seen EXCEPT ![r].pool = get_request_id(ctxs, PoolContext(r))]
    /\ mpc' = [mpc EXCEPT ![r].a = "pool"]
    /\ UNCHANGED <<request_id, token, response>>
    /\ UNCHANGED <<svcvars, storevars, adaptervars, procvars>>

\* routes.py line 208: the handler returns its response.
HandlerReturn(r) ==
    /\ mpc[r].a = "pool"
    /\ mpc' = [mpc EXCEPT ![r].a = "returned"]
    /\ UNCHANGED <<context, request_id, token, response, seen>>
    /\ UNCHANGED <<svcvars, storevars, adaptervars, procvars>>

\* An error escapes the downstream application into call_next.
HandlerRaise(r) ==
    /\ mpc[r].a \in {"started", "read", "pool"}
    /\ mpc' = [mpc EXCEPT ![r].a = "raised"]
    /\ UNCHANGED <<context, request_id, token, response, seen>>
    /\ UNCHANGED <<svcvars, storevars, adaptervars, procvars>>

\* routes.py lines 201-204, 244-247: the handler returns a StreamingResponse
\* around stream_article_generator, whose body runs later in the same task.
HandlerStream(r) ==
    /\ mpc[r].a = "read"
    /\ mpc' = [mpc EXCEPT ![r].a = "responded"]
    /\ UNCHANGED <<context, request_id, token, response, seen>>
    /\ UNCHANGED <<svcvars, storevars, adaptervars, procvars>>

\* routes.py line 156: run_in_threadpool(service.run_with_streaming, topic)
\* makes the generator in a pool thread; the for loop that iterates it runs in
\* the handler's task.
StreamCreate(r) ==
    /\ mpc[r].a = "responded"
    /\ LET ctxs == copy_context(context, AppContext(r), PoolContext(r)) IN
        /\ context' = ctxs
        /\ seen' = [seen EXCEPT ![r].pool = get_request_id(ctxs, PoolContext(r))]
    /\ mpc' = [mpc EXCEPT ![r].a = "generator"]
    /\ UNCHANGED <<request_id, token, response>>
    /\ UNCHANGED <<svcvars, storevars, adaptervars, procvars>>

\* storm_service.py lines 281-282: threading.Thread(target=run_storm).start(),
\* from the generator body running in the handler's task; what
\* get_request_id() returns inside run_storm is recorded.
WorkerStart(r) ==
    /\ mpc[r].a = "generator"
    /\ LET ctxs == Thread_context(context, AppContext(r), WorkerContext(r)) IN
        /\ context' = ctxs
        /\ seen' = [seen EXCEPT ![r].worker = get_request_id(ctxs, WorkerContext(r))]
    /\ mpc' = [mpc EXCEPT ![r].a = "worker"]
    /\ UNCHANGED <<request_id, token, response>>
    /\ UNCHANGED <<svcvars, storevars, adaptervars, procvars>>

\* The stream ends.
StreamEnd(r) ==
    /\ mpc[r].a = "worker"
    /\ mpc' = [mpc EXCEPT ![r].a = "streamed"]
    /\ UNCHANGED <<context, request_id, token, response, seen>>
    /\ UNCHANGED <<svcvars, storevars, adaptervars, procvars>>

\* Lines 109-116: call_next has returned the response (for a stream, as soon as
\* the response has started); the header is set, the response returned and
\* the finally clause resets the variable.
Dispatch_Return(r) ==
    /\ mpc[r].d = "awaiting"
    /\ mpc[r].a \in {"returned", "responded", "generator", "worker", "streamed"}
    /\ response' = [response EXCEPT ![r] = [kind |-> "response", header |-> request_id[r]]]
    /\ context' = ContextVar_reset(context, TaskContext(r), token[r])
    /\ mpc' = [mpc EXCEPT ![r].d = "exited"]
    /\ UNCHANGED <<request_id, token, seen>>
    /\ UNCHANGED <<svcvars, storevars, adaptervars, procvars>>

\* Lines 109, 114-116: call_next raises; the finally clause resets the variable
\* and the error goes on to the caller of dispatch.
Dispatch_Raise(r) ==
    /\ mpc[r].d = "awaiting"
    /\ mpc[r].a = "raised"
    /\ response' = [response EXCEPT ![r] = [kind |-> "error", header |-> None]]
    /\ context' = ContextVar_reset(context, TaskContext(r), token[r])
    /\ mpc' = [mpc EXCEPT ![r].d = "exited"]
    /\ UNCHANGED <<request_id, token, seen>>
    /\ UNCHANGED <<svcvars, storevars, adaptervars, procvars>>

MiddlewareInit == Init /\ env.do_polish_article

MiddlewareNext ==
    \E r \in Requests :
        \/ Dispatch_Bind(r)
        \/ CallNext(r)
        \/ HandlerRead(r)
        \/ HandlerRun(r)
        \/ HandlerReturn(r)
        \/ HandlerRaise(r)
        \/ HandlerStream(r)
        \/ StreamCreate(r)
        \/ WorkerStart(r)
        \/ StreamEnd(r)
        \/ Dispatch_Return(r)
        \/ Dispatch_Raise(r)

MiddlewareSpec == MiddlewareInit /\ [][MiddlewareNext]_vars

\* The steps the generator takes when its consumer asks for the next chunk.
ConsumerStep(e) ==
    StreamLaunch(e) \/ PollGet(e) \/ DrainGet(e) \/ StreamFinish(e) \/ StreamFail(e)

\* One streaming request, A, served while a non-streaming request, B, may
\* arrive, clear the store and run its own pipeline.
LiveNext ==
    \/ \E t \in TopicsOf("A") : StreamStart("A", t)
    \/ \E t \in RunTopics : RunStart("B", t)
    \/ \E e \in Execs :
        \/ StreamLaunch(e)
        \/ PipelineEmit(e)
        \/ \E kind \in {"outline", "draft", "polished"} : PipelineWrite(e, kind)
        \/ \E type \in PipelineErrors : PipelineRaise(e, type)
        \/ PipelineReturn(e)
        \/ ResolveListRace(e)
        \/ ResolveRead(e)
        \/ RunReturn(e)
        \/ RunRaise(e)
        \/ PollGet(e)
        \/ PollTimeout(e)
        \/ DrainGet(e)
        \/ StreamFinish(e)
        \/ StreamFail(e)

\* A consumer that keeps requesting chunks: the generator's steps are taken
\* whenever they stay possible. Nothing is assumed of the pipeline, which may
\* run forever.
LiveSpec == Init /\ [][LiveNext]_vars /\ \A e \in Execs : WF_vars(ConsumerStep(e))

\* _storm_service = StormService(): the one call that makes the service.
Construct ==
    /\ service = NoService
    /\ service' = StormService(environ)
    /\ UNCHANGED <<svcvars, mwvars, storevars, adaptervars>>
    /\ UNCHANGED <<environ, threads, timeouts>>

\* A process started with any environment: nothing has been constructed.
ServiceInit ==
    /\ ProcessInit
    /\ environ \in Environs
    /\ service = NoService

\* The service is constructed, then serves one non-streaming request.
ServiceNext ==
    \/ Construct
    \/ \E t \in RunTopics : RunStart("A", t)
    \/ \E kind \in {"outline", "draft", "polished"} : PipelineWrite("A", kind)
    \/ \E type \in PipelineErrors : PipelineRaise("A", type)
    \/ PipelineReturn("A")
    \/ ResolveRead("A")
    \/ RunReturn("A")
    \/ RunRaise("A")

ServiceSpec == ServiceInit /\ [][ServiceNext]_vars

\* Sequential use: a request is made only when the one before it has been
\* answered (run returned or raised, the stream ended).
Sequential(e) == e = "B" => pc["A"] = "done"

\* No two executions overlap, so no other thread touches the store while one
\* resolves its article.
SeqNext ==
    \E e \in Execs :
        \/ Sequential(e) /\ \E t \in RunTopics : RunStart(e, t)
        \/ Sequential(e) /\ \E t \in TopicsOf(e) : StreamStart(e, t)
        \/ StreamLaunch(e)
        \/ PipelineEmit(e)
        \/ \E kind \in {"outline", "draft", "polished"} : PipelineWrite(e, kind)
        \/ \E type \in PipelineErrors : PipelineRaise(e, type)
        \/ PipelineReturn(e)
        \/ ResolveRead(e)
        \/ RunReturn(e)
        \/ RunRaise(e)
        \/ PollGet(e)
        \/ PollTimeout(e)
        \/ DrainGet(e)
        \/ StreamFinish(e)
        \/ StreamFail(e)

SeqSpec == Init /\ [][SeqNext]_vars

\* The most empty polls recorded for one execution.
MaxTimeouts == 2

\* A bridge that takes an empty poll for the end of the stream.
except_queue_Empty_Break == "done"

\* except queue.Empty: continue -- back to the test of the while loop.
except_queue_Empty == "poll"

\* Lines 285-292 with the empty poll recorded: get(timeout=0.1) raises
\* queue.Empty, nothing is yielded, the loop goes on.
PollEmpty(e) ==
    /\ pc[e] = "poll"
    /\ IsAlive(e)
    /\ queue[handler[e]] = <<>>
    /\ timeouts[e] < MaxTimeouts
    /\ timeouts' = [timeouts EXCEPT ![e] = @ + 1]
    /\ pc' = [pc EXCEPT ![e] = except_queue_Empty]
    /\ UNCHANGED <<mwvars, storevars, adaptervars>>
    /\ UNCHANGED <<environ, service, threads>>
    /\ UNCHANGED <<handler, disk>>
    /\ UNCHANGED <<storage, env, mode, topic, wpc, config, wrote, queue, produced,
                   chunks, article, error, raised, files, outcome>>

\* One streaming request, A, whose empty polls are recorded, while a
\* non-streaming request, B, may arrive.
PollNext ==
    \/ \E t \in TopicsOf("A") : StreamStart("A", t)
    \/ \E t \in RunTopics : RunStart("B", t)
    \/ \E e \in Execs :
        \/ StreamLaunch(e)
        \/ PipelineEmit(e)
        \/ \E kind \in {"outline", "draft", "polished"} : PipelineWrite(e, kind)
        \/ \E type \in PipelineErrors : PipelineRaise(e, type)
        \/ PipelineReturn(e)
        \/ ResolveListRace(e)
        \/ ResolveRead(e)
        \/ RunReturn(e)
        \/ RunRaise(e)
        \/ PollGet(e)
        \/ PollEmpty(e)
        \/ DrainGet(e)
        \/ StreamFinish(e)
        \/ StreamFail(e)

PollSpec == Init /\ [][PollNext]_vars

\* The consumer takes the banner and asks for nothing more: the generator
\* stays suspended at line 254 and the worker is never started.
AbandonAtBanner(e) ==
    /\ pc[e] = "setup"
    /\ pc' = [pc EXCEPT ![e] = "abandoned"]
    /\ UNCHANGED <<mwvars, storevars, adaptervars, procvars>>
    /\ UNCHANGED <<handler, disk>>
    /\ UNCHANGED <<storage, env, mode, topic, wpc, config, wrote, queue, produced,
                   chunks, article, error, raised, files, outcome>>

\* The consumer takes one more progress line (yielded at line 289 or 301) and
\* asks for nothing more: the generator stays suspended at that yield, or is
\* closed there (GeneratorExit is no Exception, so no except clause runs).
AbandonOnGet(e) ==
    /\ pc[e] = "poll"
    /\ queue[handler[e]] # <<>>
    /\ chunks' = [chunks EXCEPT ![e] = Forward(@, queue_get(queue[handler[e]]).message)]
    /\ queue' = [queue EXCEPT ![handler[e]] = queue_get(@).rest]
    /\ pc' = [pc EXCEPT ![e] = "abandoned"]
    /\ UNCHANGED <<mwvars, storevars, adaptervars, procvars>>
    /\ UNCHANGED <<handler, disk>>
    /\ UNCHANGED <<storage, env, mode, topic, wpc, config, wrote, produced,
                   article, error, raised, files, outcome>>

\* The steps that end run_storm: runner.run returns or raises, and the article
\* is fetched.
WorkerStep(e) ==
    \/ \E type \in PipelineErrors : PipelineRaise(e, type)
    \/ PipelineReturn(e)
    \/ ResolveListRace(e)
    \/ ResolveRead(e)

AbandonNext ==
    \/ LiveNext
    \/ \E e \in Execs : AbandonAtBanner(e) \/ AbandonOnGet(e)

\* A consumer that may stop at any chunk. The worker thread is scheduled and
\* runner.run comes to an end; nothing is assumed of the consumer.
AbandonSpec == Init /\ [][AbandonNext]_vars /\ \A e \in Execs : WF_vars(WorkerStep(e))

----------------------------------------------------------------------------
(* The store functions called directly: storm_service.py lines 23-63 *)

\* FileIOHelper.write_str(s, file_path) = _write_in_memory(s, file_path)
WriteStr(s, file_path) ==
    /\ storage' = _write_in_memory(storage, s, file_path)
    /\ last' = [op |-> "write", path |-> file_path, content |-> s, result |-> None]
    /\ written' = written \cup {file_path}
    /\ UNCHANGED <<execvars, mwvars, adaptervars, procvars>>

\* FileIOHelper.read_str(file_path) = _read_in_memory(file_path): dict.get
\* leaves the dict as it is.
ReadStr(file_path) ==
    /\ last' = [op |-> "read", path |-> file_path, content |-> <<>>,
                result |-> _read_in_memory(storage, file_path)]
    /\ UNCHANGED <<storage, written>>
    /\ UNCHANGED <<execvars, mwvars, adaptervars, procvars>>

\* clear_memory_storage(); the record keeps the keys that were in the store.
ClearStorage ==
    /\ storage' = clear_memory_storage
    /\ last' = [op |-> "clear", path |-> <<>>, content |-> <<>>, result |-> Keys(storage)]
    /\ written' = {}
    /\ UNCHANGED <<execvars, mwvars, adaptervars, procvars>>

\* _list_files_in_memory(directory)
ListFiles(directory) ==
    /\ last' = [op |-> "list", path |-> directory, content |-> <<>>,
                result |-> _list_files_in_memory(storage, directory)]
    /\ UNCHANGED <<storage, written>>
    /\ UNCHANGED <<execvars, mwvars, adaptervars, procvars>>

\* Streaming executions whose caller may pass the handler H in: each takes a
\* handler of its own or H.
HandlerInit == Init /\ env.do_polish_article

HandlerNext ==
    \E e \in Execs :
        \/ \E h \in {e, "H"} : StreamStartWith(e, "Python", h)
        \/ StreamLaunch(e)
        \/ PipelineEmit(e)
        \/ \E kind \in {"outline", "draft", "polished"} : PipelineWrite(e, kind)
        \/ PipelineRaise(e, "Exception")
        \/ PipelineReturn(e)
        \/ ResolveListRace(e)
        \/ ResolveRead(e)
        \/ PollGet(e)
        \/ PollTimeout(e)
        \/ DrainGet(e)
        \/ StreamFinish(e)
        \/ StreamFail(e)

HandlerSpec == HandlerInit /\ [][HandlerNext]_vars

AdapterInit == Init /\ env.do_polish_article

AdapterNext ==
    \/ \E name \in HandlerNames : \E arg \in HandlerArgs(name) : HandlerCall(name, arg)
    \/ GetProgress
    \/ ClearProgress

AdapterSpec == AdapterInit /\ [][AdapterNext]_vars

\* The handlers called with arguments short of what they expect.
DefensiveNext ==
    \/ \E name \in HandlerNames :
          \E arg \in HandlerArgs(name) \cup DegenerateArgs(name) : HandlerCall(name, arg)
    \/ GetProgress
    \/ ClearProgress

DefensiveSpec == AdapterInit /\ [][DefensiveNext]_vars

\* on_dialogue_turn_end run by a pipeline thread on the handler H, statement by
\* statement; nothing in the handler holds a lock.
\* Line 206, first half: the counter is read for `+= 1`.
TurnLoad(t) ==
    /\ threads[t].pc = "idle"
    /\ threads[t].calls < MaxTurns
    /\ threads' = [threads EXCEPT ![t].pc = "loaded",
                                  ![t].value = stage_info.dialogue_turns_count]
    /\ UNCHANGED <<svcvars, mwvars, storevars, adaptervars>>
    /\ UNCHANGED <<environ, service, timeouts>>

\* Line 206, second half: the sum is stored.
TurnStore(t) ==
    /\ threads[t].pc = "loaded"
    /\ stage_info' = [stage_info EXCEPT !.dialogue_turns_count = threads[t].value + 1]
    /\ threads' = [threads EXCEPT ![t].pc = "stored"]
    /\ UNCHANGED <<svcvars, mwvars, storevars, call>>
    /\ UNCHANGED <<environ, service, timeouts>>

\* Line 207: turn_num = self._stage_info["dialogue_turns_count"]
TurnRead(t) ==
    /\ threads[t].pc = "stored"
    /\ threads' = [threads EXCEPT ![t].pc = "read",
                                  ![t].turn_num = stage_info.dialogue_turns_count]
    /\ UNCHANGED <<svcvars, mwvars, storevars, adaptervars>>
    /\ UNCHANGED <<environ, service, timeouts>>

\* Lines 209-226: the question is found and the line with turn_num is added.
TurnEmit(t) ==
    /\ threads[t].pc = "read"
    /\ LET dlg_turn == DlgTurn("conv_q", <<"w", "h", "y">>)
           line == <<"  Q", ToString(threads[t].turn_num), ": ">>
                       \o short_question(question_str_of(dlg_turn))
       IN /\ queue' = [queue EXCEPT !["H"] = add_progress(@, line)]
          /\ stage_info' = [stage_info EXCEPT !.current_query = question_str_of(dlg_turn)]
          /\ call' = Called("on_dialogue_turn_end", dlg_turn, <<line>>, <<>>, None)
    /\ threads' = [threads EXCEPT ![t].pc = "idle", ![t].calls = @ + 1]
    /\ UNCHANGED <<storage, runvars, mwvars, storevars>>
    /\ UNCHANGED <<environ, service, timeouts>>

ThreadNext ==
    \E t \in Threads : TurnLoad(t) \/ TurnStore(t) \/ TurnRead(t) \/ TurnEmit(t)

ThreadSpec == AdapterInit /\ [][ThreadNext]_vars

StoreInit == Init /\ env.do_polish_article

StoreNext ==
    \/ \E file_path \in StorePaths, s \in StoreContents : WriteStr(s, file_path)
    \/ \E file_path \in StorePaths : ReadStr(file_path)
    \/ ClearStorage

StoreSpec == StoreInit /\ [][StoreNext]_vars

\* The store written, listed, read and cleared.
ListNext ==
    \/ \E file_path \in ListPaths, s \in StoreContents : WriteStr(s, file_path)
    \/ \E directory \in ListDirs : ListFiles(directory)
    \/ \E file_path \in ListPaths : ReadStr(file_path)
    \/ ClearStorage

ListSpec == StoreInit /\ [][ListNext]_vars

----------------------------------------------------------------------------
(* Vocabulary of the properties *)

Streaming(e) == mode[e] = "stream"

\* The request has been accepted and its result is not yet delivered.
InFlight(e) == pc[e] \notin {"idle", "done"}

\* The stream ended normally / the call returned / the caller got an exception.
Completed(e) == outcome[e].kind = "completed"
Returned(e) == outcome[e].kind = "returned"
Failed(e) == outcome[e].kind = "raised"

Lines(msgs) == [i \in DOMAIN msgs |-> Line(msgs[i])]

Last(seq) == seq[Len(seq)]

\* The paths execution e's own pipeline writes.
OwnPaths(e) ==
    {ArtifactPath(e, mode[e], topic[e], kind) : kind \in {"outline", "draft", "polished"}}

\* The store holds the artifact of that kind that e's pipeline wrote.
HasOwn(e, kind) == \E i \in DOMAIN storage : storage[i].val = Content(e, kind)

IsProgressLine(c) == c[1] = "progress "
IsLineChunk(c) == Last(c) \in {"\n", "\n\n"}
IsArticle(c) == \E x \in Execs, kind \in {"draft", "polished"} : c = Content(x, kind)
IsErrorLine(c) ==
    c[1] \in {"Pipeline execution failed: ", "Assertion error: ",
              "Search rate limit exceeded. Try again in a few moments."}
\* An error line or the final article (an absent article included).
IsTerminalChunk(c) == IsErrorLine(c) \/ ~IsLineChunk(c)

----------------------------------------------------------------------------
(* C1 - C3: isolation of concurrent executions *)

\* C1: no artifact path written by another execution's pipeline is returned by
\* a store listing done on behalf of an execution: every path of an execution's
\* listing is a path of its own pipeline.
C1_NoForeignPathListed ==
    \A e \in Execs : \A i \in DOMAIN files[e] : files[e][i] \in OwnPaths(e)

\* C2: the store clear done when an execution starts never removes an entry
\* written by a different execution that is still in flight: from one step to
\* the next, every entry an in-flight execution wrote keeps its key in the store.
C2_ClearIsScoped ==
    [][\A e \in Execs : InFlight(e) =>
          \A i \in DOMAIN storage :
              Owner(storage[i].val) = e => storage[i].key \in KeySet(storage')]_vars

\* C3: the article delivered to an execution's caller (returned by run, or
\* yielded last by run_with_streaming) is content that execution's own pipeline
\* wrote.
C3_OwnArticleDelivered ==
    \A e \in Execs :
        /\ Returned(e) => Owner(outcome[e].val) = e
        /\ Streaming(e) /\ Completed(e) => Owner(Last(chunks[e])) = e

----------------------------------------------------------------------------
(* C4 - C7: the chunk sequence of one streaming execution *)

\* C4: in a streaming execution the progress lines forwarded so far, followed
\* by what is still queued, are exactly the events the adapter has put on the
\* queue, in production order, each once; when the stream has ended, by success
\* or by failure, nothing is left queued, so every event has been forwarded.
C4_ProgressExactlyOnceInOrder ==
    \A e \in Execs : Streaming(e) =>
        /\ SelectSeq(chunks[e], IsProgressLine) \o Lines(queue[e]) = Lines(produced[e])
        /\ pc[e] = "done" => queue[e] = <<>>

\* A streaming execution that failed after its adapter produced two events.
C4_Witness ==
    \E e \in Execs :
        Streaming(e) /\ pc[e] = "done" /\ Failed(e) /\ Len(produced[e]) >= 2

\* C5: a successful streaming execution yields line chunks only, followed by
\* exactly one chunk that is the complete article held in the result slot, and
\* that chunk is the last of the stream.
C5_ArticleOnceAndLast ==
    \A e \in Execs : Streaming(e) /\ Completed(e) =>
        /\ pc[e] = "done"
        /\ chunks[e] # <<>>
        /\ Last(chunks[e]) = article[e]
        /\ IsArticle(Last(chunks[e]))
        /\ \A i \in 1 .. (Len(chunks[e]) - 1) :
              IsLineChunk(chunks[e][i]) /\ ~IsArticle(chunks[e][i])

\* A successful stream that carried a progress line before its article.
C5_Witness ==
    \E e \in Execs :
        Streaming(e) /\ Completed(e) /\ produced[e] # <<>> /\ IsArticle(Last(chunks[e]))

\* C6: every progress message the worker enqueued is forwarded before any
\* terminal chunk (error line or final article): wherever a terminal chunk
\* stands in the stream, a line for each produced message stands before it.
C6_DrainBeforeTerminal ==
    \A e \in Execs : Streaming(e) =>
        \A i \in DOMAIN chunks[e] : IsTerminalChunk(chunks[e][i]) =>
            \A j \in DOMAIN produced[e] :
                \E k \in 1 .. (i - 1) : chunks[e][k] = Line(produced[e][j])

\* The worker has failed and terminated while a message enqueued after the
\* bridge's last poll is still queued: one line is forwarded, one is pending,
\* and no terminal chunk has been emitted.
C6_Witness ==
    \E e \in Execs :
        /\ Streaming(e) /\ pc[e] = "poll" /\ wpc[e] = "done" /\ error[e] # None
        /\ Len(queue[e]) = 1
        /\ Len(SelectSeq(chunks[e], IsProgressLine)) = 1
        /\ \A i \in DOMAIN chunks[e] : ~IsTerminalChunk(chunks[e][i])

\* C7 as stated: the chunks of a successful stream are the adapter's events
\* followed by the article, and nothing else.
C7_OnlyEventsAndArticle ==
    \A e \in Execs : Streaming(e) /\ Completed(e) =>
        chunks[e] = produced[e] \o <<article[e]>>

\* C7 amended: the chunks of a successful stream are the bridge's start banner,
\* then the adapter's events in production order, each as a line, then the
\* bridge's stage-completion and heading chunks, then the article, and nothing else.
C7_BannerEventsStagesArticle ==
    \A e \in Execs : Streaming(e) /\ Completed(e) =>
        chunks[e] = <<Starting(topic[e])>> \o Lines(produced[e])
                        \o StageLines(config[e]) \o <<article[e]>>

\* A successful stream with polishing switched off and an event forwarded.
C7_Witness ==
    \E e \in Execs :
        /\ Streaming(e) /\ Completed(e) /\ produced[e] # <<>>
        /\ ~config[e].do_polish_article

----------------------------------------------------------------------------
(* C8 - C10: artifact resolution and the worker's error slot *)

\* C8: when resolution ends with both the polished and the draft artifact of
\* the run in the store, it returns the run's polished content if polishing is
\* enabled and the run's draft content if it is disabled.
C8_PolishedPreferred ==
    [][\A e \in Execs :
          (/\ wpc[e] = "reading" /\ wpc'[e] = "done"
           /\ HasOwn(e, "polished") /\ HasOwn(e, "draft"))
          => article'[e] = Content(e, IF config[e].do_polish_article
                                      THEN "polished" ELSE "draft")]_vars

\* C9: when the pipeline has returned and the store holds neither a polished
\* nor a draft artifact of the run as resolution ends, the execution fails: no
\* article is put in the result slot.
C9_NoArtifactFails ==
    [][\A e \in Execs :
          (/\ wpc[e] = "reading" /\ wpc'[e] = "done"
           /\ ~HasOwn(e, "polished") /\ ~HasOwn(e, "draft"))
          => article'[e] = None /\ error'[e] # None]_vars

----------------------------------------------------------------------------
(* C11 - C13: failures *)

IsPrefix(s, t) == Len(s) <= Len(t) /\ SubSeq(t, 1, Len(s)) = s

Range(seq) == {seq[i] : i \in DOMAIN seq}

RateLimitLine == <<"Search rate limit exceeded. Try again in a few moments.", "\n">>

\* C11: in a streaming execution no step retracts or alters a chunk already
\* yielded; and the step that ends the stream of an execution whose worker
\* failed leaves every produced progress line forwarded, yields at least one
\* error line, the last chunk being one, ends the stream as failed, and yields
\* no stage-completion chunk and no article chunk.
C11_FailureKeepsProgress ==
    [][\A e \in Execs : Streaming(e) =>
          /\ IsPrefix(chunks[e], chunks'[e])
          /\ (pc[e] = "poll" /\ pc'[e] = "done" /\ error[e] # None) =>
                /\ outcome'[e].kind = "raised"
                /\ SelectSeq(chunks'[e], IsProgressLine) = Lines(produced[e])
                /\ \E i \in DOMAIN chunks'[e] :
                      i > Len(chunks[e]) /\ IsErrorLine(chunks'[e][i])
                /\ IsErrorLine(Last(chunks'[e]))
                /\ \A i \in DOMAIN chunks'[e] :
                      /\ ~IsArticle(chunks'[e][i])
                      /\ chunks'[e][i] # article[e]
                      /\ chunks'[e][i] \notin Range(StageLines(config[e]))]_vars

\* A stream that failed by an AssertionError of the pipeline after one progress
\* event, whose line stands before the error lines.
C11_Witness ==
    \E e \in Execs :
        /\ Streaming(e) /\ pc[e] = "done" /\ Failed(e)
        /\ raised[e] # None /\ TypeName(raised[e]) = "AssertionError"
        /\ Len(produced[e]) = 1
        /\ chunks[e][2] = Line(produced[e][1])

\* C12: when the pipeline of a non-streaming run raised an error of the
\* rate-limit kind, run fails with the rate-limit "try again" error, not with
\* the generic "Pipeline execution failed" error.
C12_RunRateLimit ==
    \A e \in Execs :
        (/\ mode[e] = "run" /\ pc[e] = "done"
         /\ raised[e] # None /\ TypeName(raised[e]) = "RatelimitException")
        => outcome[e] = [kind |-> "raised",
                         val |-> <<"Exception",
                                   "Search rate limit exceeded. Try again in a few moments.">>]

\* A run that ended after its pipeline raised a RatelimitException.
C12_Witness ==
    \E e \in Execs :
        /\ mode[e] = "run" /\ pc[e] = "done"
        /\ raised[e] # None /\ TypeName(raised[e]) = "RatelimitException"

\* C13: when the error recorded by the worker of a streaming execution is of the
\* rate-limit kind, the ended stream's error lines are the rate-limit line only
\* and the error that ends the stream is the rate-limit "try again" error.
C13_StreamRateLimit ==
    \A e \in Execs :
        (/\ Streaming(e) /\ pc[e] = "done"
         /\ error[e] # None /\ TypeName(error[e]) = "RatelimitException")
        => /\ outcome[e] = [kind |-> "raised",
                            val |-> <<"Exception",
                                      "Search rate limit exceeded. Try again in a few moments.">>]
           /\ \A i \in DOMAIN chunks[e] :
                 IsErrorLine(chunks[e][i]) => chunks[e][i] = RateLimitLine

----------------------------------------------------------------------------
(* C14: the stream is finite *)

\* C14: once the worker of a streaming execution has terminated (its pipeline
\* returned and resolution ended, or something raised), a consumer that keeps
\* requesting chunks reaches the end of the stream.
C14_StreamEnds ==
    \A e \in Execs : (Streaming(e) /\ wpc[e] = "done") ~> (pc[e] = "done")

\* The worker has terminated with two messages still queued and the stream
\* not yet ended.
C14_Witness ==
    \E e \in Execs :
        Streaming(e) /\ wpc[e] = "done" /\ pc[e] = "poll" /\ Len(queue[e]) = 2

----------------------------------------------------------------------------
(* C15 - C17: the correlation id *)

\* C15: in the context dispatch runs in, get_request_id() returns the empty
\* string before the binding, the bound id from the binding until dispatch
\* exits, and the empty string again once dispatch has exited, by returning the
\* response or by passing on the error the downstream handler raised; the
\* downstream handler, inside the bound extent, reads the bound id.
C15_BoundExtent ==
    \A r \in Requests :
        /\ mpc[r].d = "idle" => get_request_id(context, TaskContext(r)) = <<>>
        /\ mpc[r].d \in {"bound", "awaiting"} =>
              /\ request_id[r] \in Ids
              /\ get_request_id(context, TaskContext(r)) = request_id[r]
        /\ mpc[r].d = "exited" =>
              /\ response[r].kind \in {"response", "error"}
              /\ get_request_id(context, TaskContext(r)) = <<>>
        /\ seen[r].handler \in {None, request_id[r]}

\* Dispatch has exited on the error path: the downstream handler raised after
\* it had read the id.
C15_Witness ==
    \E r \in Requests :
        /\ mpc[r].d = "exited" /\ response[r].kind = "error"
        /\ seen[r].handler # None

\* C16: get_request_id() evaluated inside the worker thread started by
\* run_with_streaming for a request returns the id bound for that request.
C16_WorkerSeesId ==
    \A r \in Requests : seen[r].worker # None => seen[r].worker = request_id[r]

\* What was read anywhere on behalf of request r, and the header it got.
Observed(r) == {seen[r].handler, seen[r].pool, seen[r].worker, response[r].header} \ {None}

\* C17: for any interleaving of two requests, the id the handler of a request
\* reads and the X-Request-ID header of its response are the id generated for
\* that request, the two requests' ids differ, and nothing read on behalf of
\* a request, nor its header, is the other request's id.
C17_NoCrossRequestId ==
    \A r \in Requests :
        /\ seen[r].handler \in {None, request_id[r]}
        /\ response[r].kind = "response" => response[r].header = request_id[r]
        /\ \A q \in Requests \ {r} :
              request_id[q] # None =>
                  /\ request_id[q] # request_id[r]
                  /\ request_id[q] \notin Observed(r)

\* Both requests are inside dispatch at once, each handler has read its id, and
\* the one bound first has already got its response.
C17_Witness ==
    /\ seen["R1"].handler # None /\ seen["R2"].handler # None
    /\ mpc["R2"].d = "awaiting"
    /\ response["R1"].kind = "response"
    /\ token["R2"] = MISSING

----------------------------------------------------------------------------
(* C18 - C20: the store's write and read *)

\* Two paths that differ at most in which separator stands at each place.
SamePath(p, q) ==
    /\ Len(p) = Len(q)
    /\ \A i \in DOMAIN p : p[i] = q[i] \/ (p[i] \in Seps /\ q[i] \in Seps)

\* Some path with the same normalized form as p was written since the last clear.
WrittenSame(p) == \E w \in written : SamePath(w, p)

\* C18: after write(p, x), a read of any path q that differs from p at most in
\* its separators returns x; and in every state read(normalize(p)) = read(p)
\* for every path p.
C18_NormalizedRoundTrip ==
    /\ last.op = "write" =>
          \A q \in StorePaths :
              SamePath(q, last.path) => _read_in_memory(storage, q) = last.content
    /\ \A p \in StorePaths :
          _read_in_memory(storage, _normalize_path(p)) = _read_in_memory(storage, p)

\* A path was written with backslashes at both places while the store already
\* held another entry.
C18_Witness ==
    /\ last.op = "write"
    /\ last.path = <<"d", BACKSLASH, "e", BACKSLASH, "f">>
    /\ Len(storage) = 2

\* C19: a read of a path of which no form has been written since the last
\* clear returns the empty string, not an error, and leaves the store as it was.
C19_AbsentReadIsEmpty ==
    [][(last'.op = "read" /\ ~WrittenSame(last'.path))
          => last'.result = <<>> /\ storage' = storage]_vars

\* An unwritten path was read from a store that holds another entry.
C19_Witness ==
    /\ last.op = "read" /\ ~WrittenSame(last.path)
    /\ last.result = <<>>
    /\ Len(storage) = 1

\* C20: a write to a path of which a form has already been written since the
\* last clear adds no entry, changes no other entry, and leaves a single entry
\* for the path, holding the content written last.
C20_LastWriterWins ==
    [][(last'.op = "write" /\ WrittenSame(last'.path))
          => /\ Len(storage') = Len(storage)
             /\ \E i \in DOMAIN storage' :
                   /\ SamePath(storage'[i].key, last'.path)
                   /\ storage'[i].val = last'.content
                   /\ \A j \in DOMAIN storage' :
                         j # i => /\ storage'[j] = storage[j]
                                  /\ ~SamePath(storage'[j].key, last'.path)]_vars

\* The path of the first of two entries, written before with one separator
\* and content, has been written again with the other separator and content.
C20_Witness ==
    /\ last.op = "write" /\ last.path = <<"d", BACKSLASH, "f">> /\ last.content = <<"y">>
    /\ <<"d", SEP, "f">> \in written
    /\ Len(storage) = 2
    /\ storage[1] = [key |-> <<"d", SEP, "f">>, val |-> <<"y">>]

----------------------------------------------------------------------------
(* C21 - C22: listing and clearing the store *)

\* The key lies under the directory: the directory, with either separator at
\* each place, then a separator unless the directory is empty or ends with one.
Under(key, directory) ==
    LET n == Len(directory) IN
    IF n = 0 THEN TRUE
    ELSE IF directory[n] \in Seps
    THEN Len(key) >= n /\ SamePath(SubSeq(key, 1, n), directory)
    ELSE /\ Len(key) >= n + 1
         /\ SamePath(SubSeq(key, 1, n), directory)
         /\ key[n + 1] = SEP

\* C21: list(prefix) returns exactly the stored paths that start with the
\* normalized prefix closed by a separator, each once; so list(t) holds t/a but
\* neither tt/a nor the key t, and list of the empty prefix returns every
\* stored path.
C21_ListExactlyUnderPrefix ==
    last.op = "list" =>
        /\ Range(last.result) = {k \in KeySet(storage) : Under(k, last.path)}
        /\ Len(last.result) = Cardinality(Range(last.result))
        /\ last.path = <<"t">> =>
              /\ <<"t", "t", SEP, "a">> \notin Range(last.result)
              /\ <<"t">> \notin Range(last.result)
              /\ <<"t", SEP, "a">> \in KeySet(storage) =>
                    <<"t", SEP, "a">> \in Range(last.result)
        /\ last.path = <<>> => Range(last.result) = KeySet(storage)

\* The store holds t, t/a and tt/a, and the listing of t returned t/a alone.
C21_Witness ==
    /\ last.op = "list" /\ last.path = <<"t">>
    /\ Len(storage) = 3
    /\ last.result = << <<"t", SEP, "a">> >>

\* C22: after clear the store has no entries, whatever it held: its size is 0,
\* its file list is empty, every listing returns nothing and every read
\* returns the empty string.
C22_ClearEmpties ==
    last.op = "clear" =>
        /\ get_memory_storage_size(storage) = 0
        /\ get_memory_storage_files(storage) = <<>>
        /\ \A directory \in ListDirs : _list_files_in_memory(storage, directory) = <<>>
        /\ \A p \in ListPaths : _read_in_memory(storage, p) = <<>>

\* A clear of a store that held three entries.
C22_Witness == last.op = "clear" /\ Len(last.result) = 3

----------------------------------------------------------------------------
(* C23 - C24: the filesystem, and the store after an execution *)

\* C23: no operation of the core creates anything on the real filesystem:
\* nothing exists there because of the service.
C23_NothingOnDisk == disk = {}

\* C24: once an execution has ended and its result, article or error, has been
\* delivered to the caller, the store holds no artifact that execution wrote.
C24_ArtifactsDropped ==
    \A e \in Execs :
        pc[e] = "done" => \A i \in DOMAIN storage : Owner(storage[i].val) # e

----------------------------------------------------------------------------
(* C25, C27: the handlers and get_progress of the Lifecycle Adapter *)

\* A call of one of the eight lifecycle handlers is the last thing done to H.
HandlerCalled == call.name \in HandlerNames

\* C25 as stated: every handler invocation appends exactly one line to the
\* Progress Channel.
C25_OneLinePerCall == HandlerCalled => Len(call.appended) = 1

\* C25, amended: a handler invocation appends exactly one line at the end of
\* the channel, except on_identify_perspective_end given n >= 1 perspectives,
\* which appends n + 1 lines (a header, then one line per perspective).
C25_LinesPerCall ==
    [][HandlerCalled' =>
          /\ queue'["H"] = queue["H"] \o call'.appended
          /\ Len(call'.appended) =
                IF /\ call'.name = "on_identify_perspective_end"
                   /\ stage_info'.perspectives_count >= 1
                THEN stage_info'.perspectives_count + 1
                ELSE 1]_vars

\* on_identify_perspective_end was given two perspectives and appended three
\* lines to the channel.
C25_Witness ==
    /\ call.name = "on_identify_perspective_end"
    /\ Len(call.appended) = 3
    /\ Len(queue["H"]) = 3

\* C27: get_progress returns every message enqueued so far in the order of
\* enqueueing and leaves the queue empty; called again at once, or on an
\* empty queue, it returns the empty list.
C27_GetProgressDrains ==
    [][call'.name = "get_progress" =>
          /\ call'.result = queue["H"]
          /\ queue'["H"] = <<>>
          /\ call.name = "get_progress" => call'.result = <<>>]_vars

\* get_progress returned three messages, not all alike, and emptied the queue.
C27_Witness ==
    /\ call.name = "get_progress"
    /\ Len(call.result) = 3
    /\ call.result[1] # call.result[3]
    /\ queue["H"] = <<>>

----------------------------------------------------------------------------
(* C26: the events an execution forwards *)

\* C26: every progress line a streaming execution has forwarded is a line its
\* own pipeline run produced, whether its handler was made for it or passed in.
C26_OwnEventsOnly ==
    \A e \in Execs :
        Streaming(e) =>
            \A i \in DOMAIN chunks[e] :
                IsProgressLine(chunks[e][i]) =>
                    chunks[e][i] \in Range(Lines(produced[e]))

----------------------------------------------------------------------------
(* C28: a consumer that stops asking for chunks *)

Abandoned(e) == pc[e] = "abandoned"

\* C28: once the consumer of a streaming execution has stopped requesting
\* chunks, a put of its worker onto the Progress Channel never has to wait,
\* no exception reaches the caller or escapes the worker, nothing more is
\* yielded and the result/error slot is never read (the execution never
\* resolves), and a worker that was started runs to its end.
C28_AbandonedWorkerCompletes ==
    /\ [](\A e \in Execs :
            Abandoned(e) =>
                /\ wpc[e] = "running" => ~Full(queue[handler[e]])
                /\ outcome[e] = NoOutcome
                /\ wpc[e] # "escaped")
    /\ [][\A e \in Execs :
            Abandoned(e) =>
                /\ Abandoned(e)'
                /\ chunks'[e] = chunks[e]
                /\ outcome'[e] = outcome[e]]_vars
    /\ \A e \in Execs : (Abandoned(e) /\ wpc[e] = "running") ~> (wpc[e] = "done")

\* The consumer stopped after one progress line; the worker went on, put
\* another line that nobody takes, and ended.
C28_Witness ==
    /\ Abandoned("A")
    /\ wpc["A"] = "done"
    /\ Len(produced["A"]) = 2
    /\ Len(queue[handler["A"]]) = 1

----------------------------------------------------------------------------
(* C29: run and run_with_streaming compared *)

\* The classification an error delivered to the caller carries: the rate-limit
\* error, or the error type _format_error was given.
ErrorClass(exc) == IF Str(exc) = RATE_LIMIT_MSG THEN "Rate limit" ELSE Str(exc)[2]

\* C29: for a non-streaming and a streaming execution that have both ended,
\* if both fetched the same article then run returned exactly the final chunk
\* of the completed stream, and if both pipelines raised the same error then
\* run failed and the stream ended in failure with the same classification.
C29_RunSimplifiesStream ==
    \A e, f \in Execs :
        (mode[e] = "run" /\ mode[f] = "stream" /\ pc[e] = "done" /\ pc[f] = "done") =>
            /\ (error[e] = None /\ error[f] = None /\ article[e] = article[f]) =>
                  /\ Returned(e) /\ Completed(f)
                  /\ outcome[e].val = Last(chunks[f])
            /\ (raised[e] # None /\ raised[e] = raised[f]) =>
                  /\ Failed(e) /\ Failed(f)
                  /\ ErrorClass(outcome[e].val) = ErrorClass(outcome[f].val)

----------------------------------------------------------------------------
(* C30: the phases of a streaming execution *)

\* The worker thread has been started and run_storm has not ended.
WorkerAlive(e) == wpc[e] \in {"running", "reading"}

\* Idle 0, Starting 1 (store cleared, channel reset, banner yielded, worker
\* not started), Running 2 (worker alive), Draining 3 (worker ended, the
\* bridge not yet at its terminal chunks), Resolved or Failed 4.
Phase(e) ==
    CASE pc[e] = "idle" -> 0
      [] pc[e] = "setup" -> 1
      [] pc[e] = "poll" /\ WorkerAlive(e) -> 2
      [] pc[e] = "poll" /\ ~WorkerAlive(e) -> 3
      [] pc[e] = "done" -> 4

Resolved(e) == pc[e] = "done" /\ Completed(e)
FailedPhase(e) == pc[e] = "done" /\ Failed(e)

HasTerminalChunk(e) == \E i \in DOMAIN chunks[e] : IsTerminalChunk(chunks[e][i])
HasErrorLine(e) == \E i \in DOMAIN chunks[e] : IsErrorLine(chunks[e][i])

----------------------------------------------------------------------------
(* C31: a poll that times out *)

\* C31: a poll of a streaming execution's channel that times out happens
\* while the worker is alive, yields no chunk, takes nothing from the queue,
\* raises nothing and leaves the bridge in its poll loop with the stream not
\* ended; and however many polls have timed out, while the worker is alive
\* the stream has not ended and no terminal chunk has been yielded.
C31_TimeoutKeepsPolling ==
    /\ [][\A e \in Execs :
            timeouts'[e] # timeouts[e] =>
                /\ WorkerAlive(e) /\ WorkerAlive(e)'
                /\ chunks'[e] = chunks[e]
                /\ queue' = queue
                /\ outcome'[e] = NoOutcome
                /\ error'[e] = error[e]
                /\ Phase(e)' = 2]_vars
    /\ [](\A e \in Execs :
            (timeouts[e] > 0 /\ WorkerAlive(e)) =>
                /\ pc[e] = "poll"
                /\ outcome[e] = NoOutcome
                /\ ~HasTerminalChunk(e))

\* A stream that stayed open through two empty polls, then forwarded a
\* progress line and ended with its article.
C31_Witness ==
    /\ timeouts["A"] = MaxTimeouts
    /\ Resolved("A")
    /\ \E i \in DOMAIN chunks["A"] : IsProgressLine(chunks["A"][i])

----------------------------------------------------------------------------
(* C32: construction without credentials *)

\* The variable is absent or set to the empty string.
AbsentOrEmpty(name) == environ[name] = None \/ environ[name] = EmptyStr

KeyNames == {"DEEPSEEK_API_KEY", "SERPER_API_KEY"}

\* C32: once StormService() has been called, if DEEPSEEK_API_KEY or
\* SERPER_API_KEY is absent or empty the call raised ValueError and there is
\* no service object; a service object exists only with both keys present and
\* non-empty, and no execution has started without a service object.
C32_NoServiceWithoutKeys ==
    /\ (service # NoService /\ \E k \in KeyNames : AbsentOrEmpty(k)) =>
          /\ service.kind = "raised"
          /\ TypeName(service.error) = "ValueError"
          /\ service.lm_configs = None /\ service.retriever = None
    /\ service.kind = "object" =>
          /\ \A k \in KeyNames : ~AbsentOrEmpty(k)
          /\ service.error = None
    /\ \A e \in Execs : pc[e] # "idle" => service.kind = "object"

\* The keys were there but SERPER_API_KEY was the empty string: StormService()
\* raised, and no request is being served.
C32_Witness ==
    /\ environ.DEEPSEEK_API_KEY = <<"sk-1">>
    /\ environ.SERPER_API_KEY = EmptyStr
    /\ service.kind = "raised"
    /\ \A e \in Execs : pc[e] = "idle"

----------------------------------------------------------------------------
(* C33: executions one after another *)

\* C33: in sequential use the store is empty when an execution has started
\* and its pipeline has written nothing yet; while the execution is in flight
\* every entry of the store was written by its own pipeline, every path of
\* its listing is one of its own, and the article it resolves is its own
\* pipeline's artifact, never one an earlier execution left.
C33_SequentialIsolation ==
    \A e \in Execs :
        /\ (InFlight(e) /\ wrote[e] = {} /\ wpc[e] \in {"none", "running"} /\ raised[e] = None)
              => storage = <<>>
        /\ InFlight(e) => \A i \in DOMAIN storage : Owner(storage[i].val) = e
        /\ \A i \in DOMAIN files[e] :
              /\ files[e][i] \in OwnPaths(e)
              /\ Owner(storage[IndexOf(storage, files[e][i])].val) = e
        /\ article[e] # None => Owner(article[e]) = e

\* The second execution has resolved its own article although the first one,
\* on the same topic, left its polished article behind in the store.
C33_Witness ==
    /\ Completed("A") /\ article["A"] = Content("A", "polished")
    /\ Completed("B") /\ article["B"] = Content("B", "polished")
    /\ topic["A"] = topic["B"]

----------------------------------------------------------------------------
(* C34: the fallback of artifact resolution *)

IsPolishedPath(f) == Contains(f, "polished_article.txt")
IsDraftPath(f) == Contains(f, "storm_gen_article.txt")

\* Neither the listing resolution took nor the store it reads holds a
\* polished article.
NoPolishedPresent(e) ==
    /\ \A i \in DOMAIN files[e] : ~IsPolishedPath(files[e][i])
    /\ \A i \in DOMAIN storage : ~IsPolishedPath(storage[i].key)

\* The listing holds a draft article, and the first one listed is in the store.
DraftPresent(e) ==
    /\ \E i \in DOMAIN files[e] : IsDraftPath(files[e][i])
    /\ SelectSeq(files[e], IsDraftPath)[1] \in KeySet(storage)

\* C34: when resolution ends with polishing enabled, no polished artifact
\* present and a draft artifact present, it does not fail: the result slot
\* gets the content stored for the draft and the error slot stays empty.
C34_DraftFallback ==
    [][\A e \in Execs :
          (/\ wpc[e] = "reading" /\ wpc'[e] = "done"
           /\ config[e].do_polish_article
           /\ NoPolishedPresent(e) /\ DraftPresent(e))
          => /\ error'[e] = None
             /\ article'[e] =
                  storage[IndexOf(storage, SelectSeq(files[e], IsDraftPath)[1])].val
             /\ KindOf(article'[e]) = "draft"]_vars

\* With polishing enabled the pipeline returned after its draft, before any
\* polished article was written, and resolution gave the draft.
C34_Witness ==
    \E e \in Execs :
        /\ config[e].do_polish_article
        /\ wpc[e] = "done" /\ error[e] = None
        /\ article[e] = Content(e, "draft")
        /\ \A i \in DOMAIN storage : ~IsPolishedPath(storage[i].key)

----------------------------------------------------------------------------
(* C35, C36: defensive formatting *)

\* C35: whatever arguments a handler is called with, the call raises nothing
\* and appends at least one line to the Progress Channel.
C35_NoHandlerRaises ==
    HandlerCalled => call.exc = None /\ Len(call.appended) >= 1

\* The question text of the line on_dialogue_turn_end appended: what follows
\* "  Q", the turn number and ": ".
EmittedQuestion == SubSeq(call.appended[1], 4, Len(call.appended[1]))

\* C36: the question on_dialogue_turn_end emits is the question unchanged
\* when it has at most 80 characters, its first 80 characters followed by
\* "..." when it has more, and in no case more than 83 characters.
C36_QuestionTruncated ==
    (call.name = "on_dialogue_turn_end" /\ call.exc = None) =>
        LET q == question_str_of(call.arg) IN
            /\ Len(q) <= 80 => EmittedQuestion = q
            /\ Len(q) > 80 =>
                  EmittedQuestion = SubSeq(q, 1, 80) \o <<".", ".", ".">>
            /\ Len(EmittedQuestion) <= 83

\* A question of 81 characters was emitted as 83: 80 of its own and "...".
C36_Witness ==
    /\ call.name = "on_dialogue_turn_end"
    /\ Len(question_str_of(call.arg)) = 81
    /\ Len(EmittedQuestion) = 83
    /\ EmittedQuestion[80] = call.arg.question[80]
    /\ EmittedQuestion[83] = "."

----------------------------------------------------------------------------
(* C37: the dialogue-turn counter under the pipeline's threads *)

\* The calls of on_dialogue_turn_end completed on H.
TurnCalls == threads["T1"].calls + threads["T2"].calls

\* C37: whenever no call of on_dialogue_turn_end is in progress, the counter
\* equals the number n of calls made, and the n lines emitted carry the turn
\* numbers 1..n, each exactly once.
C37_TurnNumbers ==
    (\A t \in Threads : threads[t].pc = "idle") =>
        /\ stage_info.dialogue_turns_count = TurnCalls
        /\ Len(queue["H"]) = TurnCalls
        /\ \A k \in 1 .. TurnCalls :
              Cardinality({i \in DOMAIN queue["H"] : queue["H"][i][2] = ToString(k)}) = 1

----------------------------------------------------------------------------
(* C38: the result and error slots *)

\* C38: whenever the worker of a streaming execution has terminated, exactly
\* one of its article slot and its error slot is set; and the last chunk of a
\* stream that ended without failure is the article in the slot, a present
\* string and never an absent value.
C38_ExactlyOneSlot ==
    \A e \in Execs :
        Streaming(e) =>
            /\ wpc[e] = "done" => ((article[e] # None) # (error[e] # None))
            /\ Completed(e) =>
                  /\ Last(chunks[e]) = article[e]
                  /\ article[e] # None
                  /\ IsArticle(article[e])

\* Two streams whose workers have terminated: one resolved its article and
\* ended with it as the last chunk, the other has its error slot set and no
\* article.
C38_Witness ==
    \E e, f \in Execs :
        /\ Streaming(e) /\ Completed(e) /\ article[e] = Content(e, "polished")
        /\ Streaming(f) /\ wpc[f] = "done" /\ error[f] # None /\ article[f] = None

----------------------------------------------------------------------------
(* C39: the keys of the store *)

\* The path with every backslash replaced by a slash.
Slashed(p) == [i \in DOMAIN p |-> IF p[i] = "\\" THEN "/" ELSE p[i]]

\* C39: every key of the store is free of backslashes and is the normalized
\* form of a path written since the last clear; written paths with the same
\* normalized form read as the one entry under that form; no key occurs
\* twice; and the size of the store and the length of its file list are the
\* number of distinct normalized forms of the paths written since the last
\* clear.
C39_KeysNormalized ==
    /\ \A i \in DOMAIN storage :
          /\ \A j \in DOMAIN storage[i].key : storage[i].key[j] # "\\"
          /\ \E w \in written : storage[i].key = Slashed(w)
          /\ \A j \in DOMAIN storage : storage[j].key = storage[i].key => j = i
    /\ \A p, q \in written :
          Slashed(p) = Slashed(q) =>
              /\ _read_in_memory(storage, p) = _read_in_memory(storage, q)
              /\ \E i \in DOMAIN storage :
                    /\ storage[i].key = Slashed(p)
                    /\ storage[i].val = _read_in_memory(storage, p)
    /\ get_memory_storage_size(storage) = Cardinality({Slashed(w) : w \in written})
    /\ Len(get_memory_storage_files(storage)) = Cardinality({Slashed(w) : w \in written})

\* Three spellings of one path have been written and the store holds the one
\* entry, beside an entry for another path.
C39_Witness ==
    /\ {<<"d", "/", "e", "/", "f">>, <<"d", "\\", "e", "/", "f">>,
         <<"d", "\\", "e", "\\", "f">>} \subseteq written
    /\ <<"f">> \in written
    /\ get_memory_storage_size(storage) = 2

====
